---- MODULE Spec2Model ----
(***************************************************************************)
(* A model of the Rust Cargo buildpack (paketo-community/cargo):          *)
(*   - the argument builder of runner/runners.go (FilterInstallArgs,       *)
(*     AddDefaultPath, AddDefaultTargetForTiny, BuildArgs),                *)
(*   - the workspace resolver of runner/runners.go (WorkspaceMembers),     *)
(*   - the build orchestrator of cargo/cargo.go (Cargo.Contribute) with    *)
(*     the runner's InstallMember.                                         *)
(*                                                                         *)
(* Strings are sequences of atoms.  An atom is a piece of text that the    *)
(* code never looks inside: "--root" is the flag, "--root=" the flag with  *)
(* its equals sign, " " a blank.  No atom begins with "=", so two atom     *)
(* sequences are the same Go string exactly when they are equal, and       *)
(* strings.HasPrefix(s, "--root=") is "the first atom of s is --root=".    *)
(***************************************************************************)
EXTENDS Naturals, Sequences, FiniteSets, TLC

VARIABLES
    \* ---- argument builder (runner/runners.go) ----
    argStr,      \* CargoRunner.CargoInstallArgs: the raw user string
    argOp,       \* which function has been applied to it ("none" before)
    argStack,    \* CargoRunner.Stack used by the call
    argDefault,  \* defaultMemberPath used by the call
    argIn,       \* the token list handed to AddDefaultPath
    argOut,      \* the call's result: [err, val]
    \* ---- workspace resolver (runner/runners.go) ----
    mdMembers,   \* metadata.WorkspaceMembers: the member strings, in order
    memFilter,   \* CargoRunner.CargoWorkspaceMembers: the raw filter string
    memOp,       \* which function has been applied
    memOut,      \* the call's result: [kind, val]
    \* ---- build orchestrator (cargo/cargo.go, runner/runners.go) ----
    pc,            \* where the build is: the step that runs next
    err,           \* the error the build ended with ("" while there is none)
    srcHash,       \* sherpa.NewFileListingHash of the project directory
    prevMetadata,  \* the layer metadata found when the build started
    layerMetadata, \* the layer metadata now
    expected,      \* LayerContributor.ExpectedMetadata, set by NewCargo
    members,       \* what WorkspaceMembers returned
    resolved,      \* whether WorkspaceMembers has returned
    plan,          \* the member paths InstallMember is to be called with
    idx,           \* the next entry of plan
    invocations,   \* the `cargo install` executions so far, in order
    steps,         \* the steps run so far, in order
    manifest,      \* per preserved root, the state of its mtimes.json
    appFiles,      \* the top-level entries of the project directory
    envPath,       \* the PATH of the orchestrator's own process
    restored,      \* the roots Restore has returned from without error, in order
    preserved,     \* the roots Preserve has returned from without error, in order
    \* ---- timestamp preserver (mtimes/mtimes.go) ----
    mtKind,      \* per path of the tree: "none", "file", "dir" or "link"
    mtLinkTo,    \* the destination of the tree's symbolic link
    mtMtime,     \* per path: the modification time of the entry itself
    mtAtime,     \* per path: the access time as far as the code sets it
    mtNow,       \* the clock
    mtRecords,   \* the records mtimes.json holds
    mtPc,        \* where Preserve or Restore is
    mtIdx,       \* the next entry of the walk, or the next record
    mtLog,       \* the Logger's lines
    mtErr,       \* the error returned ("" for none)
    mtSaved,     \* the modification times when Preserve finished
    mtBefore,    \* the times when Restore was called
    mtOps,       \* the calls and changes made so far
    \* ---- cache layer (cargo/cache.go) ----
    cTarget,     \* <AppPath>/target: [kind, to, content]
    cLayer,      \* the cache layer: [exists, content, Cache]
    cLayer0,     \* the content of the layer directory before the first call
    cCalls,      \* the calls of Cache.Contribute made
    cErr,        \* the error of the last call ("" for none)
    \* ---- dependency cache prune (runner/runners.go) ----
    phHome,      \* whether the directory CARGO_HOME names exists
    phKind,      \* per path under CARGO_HOME: "none", "dir", "file" or "link"
    phKind0,     \* phKind when CleanCargoHomeCache was called
    phPc,        \* where CleanCargoHomeCache is
    phErr,       \* the error returned ("" for none)
    \* ---- source cleanup at the end of Cargo.Contribute (cargo/cargo.go) ----
    clExclude,   \* Cargo.ExcludeFolders: the names to keep
    clTop,       \* per name in the project directory: "none", "dir", "file", "link"
    clTop0,      \* clTop when the cleanup started
    clBin,       \* per path under <project>/bin: "none", "dir", "file", "link"
    clBin0,      \* clBin when the cleanup started
    clLayerBin,  \* per path under <layer>/bin: "none", "dir", "file"; <<>> is bin itself
    clFresh,     \* whether <project>/bin was made by the cleanup's os.MkdirAll
    clPc,        \* where the cleanup is
    clErr,       \* the error Contribute returns ("" for none)
    \* ---- functions called once on an input ----
    fnIn,        \* the input: [fn, ...]
    fnOut        \* the result ("none" before the call)

argVars == <<argStr, argOp, argStack, argDefault, argIn, argOut>>
memVars == <<mdMembers, memFilter, memOp, memOut>>
orchVars ==
    <<pc, err, srcHash, prevMetadata, layerMetadata, expected, members, resolved,
      plan, idx, invocations, steps, manifest, appFiles, envPath, restored, preserved>>
mtVars ==
    <<mtKind, mtLinkTo, mtMtime, mtAtime, mtNow, mtRecords, mtPc, mtIdx, mtLog, mtErr,
      mtSaved, mtBefore, mtOps>>
cacheVars == <<cTarget, cLayer, cLayer0, cCalls, cErr>>
\* the state of the parts modelled after the orchestrator
pruneVars == <<phHome, phKind, phKind0, phPc, phErr>>
cleanVars ==
    <<clExclude, clTop, clTop0, clBin, clBin0, clLayerBin, clFresh, clPc, clErr>>
fnVars == <<fnIn, fnOut>>
restVars == <<mtVars, cacheVars, pruneVars, cleanVars, fnVars>>
\* what a step of the preserver leaves alone
mtOthers == <<argVars, memVars, orchVars, cacheVars, pruneVars, cleanVars, fnVars>>
\* what a call of Cache.Contribute leaves alone
cacheOthers == <<argVars, memVars, orchVars, mtVars, pruneVars, cleanVars, fnVars>>
\* what a step of CleanCargoHomeCache leaves alone
pruneOthers == <<argVars, memVars, orchVars, mtVars, cacheVars, cleanVars, fnVars>>
\* what a step of the source cleanup leaves alone
cleanOthers == <<argVars, memVars, orchVars, mtVars, cacheVars, pruneVars, fnVars>>
\* what a function call leaves alone
fnOthers == <<argVars, memVars, orchVars, mtVars, cacheVars, pruneVars, cleanVars>>

(***************************************************************************)
(* Bounds of the model.                                                    *)
(***************************************************************************)
\* longest user argument string (in atoms) that is enumerated exhaustively
MaxArgLen == 3
\* longest list of workspace member strings in the metadata
MaxMembers == 3
\* the last tick of the clock
MaxClock == 4
\* changes of modification times between Preserve and Restore
MaxTouches == 1
\* calls of Cache.Contribute in a row
MaxCalls == 3
\* os.Chtimes calls of one Restore that fail on an entry that exists
MaxChtimesErrors == 1
\* longest list of binary target names handed to BuildProcessTypes
MaxTargets == 3
\* longest list of targets of a package in the metadata
MaxPkgTargets == 2

(***************************************************************************)
(* Strings.                                                                *)
(***************************************************************************)
\* all sequences over S of length 0..n
SeqsUpTo(S, n) == UNION {[1..k -> S] : k \in 0..n}

\* sequences over S of length 0..n in which no element repeats
SeqsNoRepeat(S, n) ==
    {s \in SeqsUpTo(S, n) : \A i, j \in 1..Len(s) : i # j => s[i] # s[j]}

\* strings.HasPrefix
HasPrefix(s, p) == Len(s) >= Len(p) /\ SubSeq(s, 1, Len(p)) = p

\* strings.TrimPrefix / strings.TrimSuffix
TrimPrefix(s, p) == IF HasPrefix(s, p) THEN SubSeq(s, Len(p) + 1, Len(s)) ELSE s

HasSuffix(s, p) == Len(s) >= Len(p) /\ SubSeq(s, Len(s) - Len(p) + 1, Len(s)) = p

TrimSuffix(s, p) == IF HasSuffix(s, p) THEN SubSeq(s, 1, Len(s) - Len(p)) ELSE s

\* unicode.IsSpace on the atoms of the model
isSpace(r) == r \in {" ", "\t"}

RECURSIVE TrimLeft(_)
TrimLeft(s) == IF s # <<>> /\ isSpace(Head(s)) THEN TrimLeft(Tail(s)) ELSE s

RECURSIVE TrimRight(_)
TrimRight(s) ==
    IF s # <<>> /\ isSpace(s[Len(s)]) THEN TrimRight(SubSeq(s, 1, Len(s) - 1)) ELSE s

\* strings.TrimSpace
TrimSpace(s) == TrimRight(TrimLeft(s))

\* strings.Contains(s, sep) for a one-atom separator
Contains(s, sep) == \E i \in 1..Len(s) : s[i] = sep

\* index of the first sep in s, 0 when there is none
RECURSIVE IndexFrom(_, _, _)
IndexFrom(s, sep, i) ==
    IF i > Len(s) THEN 0 ELSE IF s[i] = sep THEN i ELSE IndexFrom(s, sep, i + 1)

Index(s, sep) == IndexFrom(s, sep, 1)

\* strings.SplitN(s, sep, n) for n >= 1: at most n parts, the last one unsplit
RECURSIVE SplitN(_, _, _)
SplitN(s, sep, n) ==
    IF n <= 1 \/ Index(s, sep) = 0
    THEN <<s>>
    ELSE <<SubSeq(s, 1, Index(s, sep) - 1)>>
             \o SplitN(SubSeq(s, Index(s, sep) + 1, Len(s)), sep, n - 1)

\* strings.Split(s, sep): every part
Split(s, sep) == SplitN(s, sep, Len(s) + 1)

(***************************************************************************)
(* shellwords.Parse (github.com/mattn/go-shellwords, default parser: no    *)
(* environment or backtick expansion), as FilterInstallArgs calls it.      *)
(* The parser reads the line rune by rune with the flags escaped,          *)
(* singleQuoted, doubleQuoted and got (no | single | quoted).              *)
(***************************************************************************)
ParseStart ==
    [args |-> <<>>, buf |-> <<>>, escaped |-> FALSE,
     singleQuoted |-> FALSE, doubleQuoted |-> FALSE, got |-> "no"]

ParseStep(st, r) ==
    IF st.escaped
    THEN [st EXCEPT !.buf = Append(@, r), !.escaped = FALSE, !.got = "single"]
    ELSE IF r = "\\"
    THEN IF st.singleQuoted
         THEN [st EXCEPT !.buf = Append(@, r)]
         ELSE [st EXCEPT !.escaped = TRUE]
    ELSE IF isSpace(r)
    THEN IF st.singleQuoted \/ st.doubleQuoted
         THEN [st EXCEPT !.buf = Append(@, r)]
         ELSE IF st.got # "no"
         THEN [st EXCEPT !.args = Append(@, st.buf), !.buf = <<>>, !.got = "no"]
         ELSE st
    ELSE IF r = "\"" /\ ~st.singleQuoted
    THEN [st EXCEPT !.got = IF st.doubleQuoted THEN "quoted" ELSE @,
                    !.doubleQuoted = ~@]
    ELSE IF r = "'" /\ ~st.doubleQuoted
    THEN [st EXCEPT !.got = IF st.singleQuoted THEN "quoted" ELSE @,
                    !.singleQuoted = ~@]
    ELSE [st EXCEPT !.got = "single", !.buf = Append(@, r)]

RECURSIVE ParseFrom(_, _, _)
ParseFrom(line, i, st) ==
    IF i > Len(line) THEN st ELSE ParseFrom(line, i + 1, ParseStep(st, line[i]))

\* the result: err is "invalid command line string" (an open quote or a
\* trailing backslash), val the words
Parse(line) ==
    LET st == ParseFrom(line, 1, ParseStart)
        words == IF st.got # "no" THEN Append(st.args, st.buf) ELSE st.args
    IN  IF st.escaped \/ st.singleQuoted \/ st.doubleQuoted
        THEN [err |-> TRUE, val |-> <<>>]
        ELSE [err |-> FALSE, val |-> words]

(***************************************************************************)
(* The argument builder.                                                   *)
(***************************************************************************)
\* a filter that forgets the space form of --color
IsRootSpaceOnly(arg) == arg = <<"--root">>

IsRootOrColor(arg) == arg = <<"--root">> \/ arg = <<"--color">>

\* a filter that forgets the equals form of --color
IsRootEqOnly(arg) == HasPrefix(arg, <<"--root=">>)

IsRootOrColorEq(arg) == HasPrefix(arg, <<"--root=">>) \/ HasPrefix(arg, <<"--color=">>)

IsPathArg(arg) == arg = <<"--path">> \/ HasPrefix(arg, <<"--path=">>)

IsTargetArg(arg) == arg = <<"--target">> \/ HasPrefix(arg, <<"--target=">>)

\* the loop of FilterInstallArgs over the parsed words
RECURSIVE FilterLoop(_, _, _, _)
FilterLoop(argwords, i, skipNext, filteredArgs) ==
    IF i > Len(argwords) THEN filteredArgs
    ELSE IF skipNext THEN FilterLoop(argwords, i + 1, FALSE, filteredArgs)
    ELSE IF IsRootOrColor(argwords[i]) THEN FilterLoop(argwords, i + 1, TRUE, filteredArgs)
    ELSE IF IsRootOrColorEq(argwords[i]) THEN FilterLoop(argwords, i + 1, FALSE, filteredArgs)
    ELSE FilterLoop(argwords, i + 1, FALSE, Append(filteredArgs, argwords[i]))

FilterInstallArgs(args) ==
    LET parsed == Parse(args)
    IN  IF parsed.err
        THEN [err |-> TRUE, val |-> <<>>]
        ELSE [err |-> FALSE, val |-> FilterLoop(parsed.val, 1, FALSE, <<>>)]

\* a default path that only looks for the equals form
AddDefaultPathEqOnly(args, defaultMemberPath) ==
    IF \E i \in 1..Len(args) : HasPrefix(args[i], <<"--path=">>)
    THEN args
    ELSE Append(args, <<"--path=">> \o defaultMemberPath)

\* a default path that is always appended
AddDefaultPathAlways(args, defaultMemberPath) ==
    Append(args, <<"--path=">> \o defaultMemberPath)

AddDefaultPath(args, defaultMemberPath) ==
    IF \E i \in 1..Len(args) : IsPathArg(args[i])
    THEN args
    ELSE Append(args, <<"--path=">> \o defaultMemberPath)

\* libpak.TinyStackID
TinyStackID == "io.paketo.stacks.tiny"

AddDefaultTargetForTiny(args, stack) ==
    IF stack # TinyStackID THEN args
    ELSE IF \E i \in 1..Len(args) : IsTargetArg(args[i]) THEN args
    ELSE Append(args, <<"--target=", "x86_64-unknown-linux-musl">>)

\* the order the specification describes: default path first, then the
\* orchestrator's --color and --root
BuildArgsPathFirst(installArgs, stack, destLayerPath, defaultMemberPath) ==
    LET envArgs == FilterInstallArgs(installArgs)
    IN  IF envArgs.err
        THEN [err |-> TRUE, val |-> <<>>]
        ELSE [err |-> FALSE,
              val |-> AddDefaultPath(<<(<<"install">>)>> \o envArgs.val, defaultMemberPath)
                          \o << <<"--color=", "never">>, <<"--root=">> \o destLayerPath >>]

BuildArgs(installArgs, stack, destLayerPath, defaultMemberPath) ==
    LET envArgs == FilterInstallArgs(installArgs)
    IN  IF envArgs.err
        THEN [err |-> TRUE, val |-> <<>>]
        ELSE [err |-> FALSE,
              val |-> AddDefaultTargetForTiny(
                          AddDefaultPath(
                              <<(<<"install">>)>> \o envArgs.val
                                  \o << <<"--color=", "never">>,
                                        <<"--root=">> \o destLayerPath >>,
                              defaultMemberPath),
                          stack)]

(***************************************************************************)
(* Inputs of the argument builder.                                         *)
(***************************************************************************)
\* the pieces user argument strings are built from
ArgAtoms ==
    {"--root", "--root=", "--color", "--color=", "--path", "--path=",
     "x", " ", "'", "\\"}

\* longer strings, after the examples of cli_runner_test.go
ExtraArgStrings ==
    { <<"--locked">>,
      <<"--root=", "x", " ", "--root", " ", "x", " ", "-v">>,
      <<"-v", " ", "x", " ", "--color", " ", "x", " ", "--locked">>,
      <<"--path=", "x", " ", "--color", " ", "x", " ", "--path", " ", "x">>,
      <<"--target=", "x", " ", "--locked">>,
      <<"-v", " ", "--root", " ", "--root", " ", "x", " ", "--color">>,
      <<"\"", "--root", " ", "x", "\"", " ", "--root", " ", "x">> }

ArgStrings == SeqsUpTo(ArgAtoms, MaxArgLen) \cup ExtraArgStrings

Stacks == {TinyStackID, "io.buildpacks.stacks.bionic"}

\* libcnb.Layer.Path of the output layer
DestLayerPath == <<"/layers/cargo">>

\* the default member paths InstallMember is called with
DefaultPaths == { <<".">>, <<"/workspace", "/basics">> }

NoResult == [err |-> FALSE, val |-> <<>>]

ArgInit ==
    /\ argStr \in ArgStrings
    /\ argOp = "none"
    /\ argStack = "none"
    /\ argDefault = <<>>
    /\ argIn = <<>>
    /\ argOut = NoResult

ArgIdle ==
    /\ argStr = <<>>
    /\ argOp = "idle"
    /\ argStack = "none"
    /\ argDefault = <<>>
    /\ argIn = <<>>
    /\ argOut = NoResult

CallFilterInstallArgs ==
    /\ argOp = "none"
    /\ argOp' = "FilterInstallArgs"
    /\ argOut' = FilterInstallArgs(argStr)
    /\ UNCHANGED <<argStr, argStack, argDefault, argIn>>
    /\ UNCHANGED <<memVars, orchVars, restVars>>

CallBuildArgs ==
    /\ argOp = "none"
    /\ \E stack \in Stacks, def \in DefaultPaths :
          /\ argStack' = stack
          /\ argDefault' = def
          /\ argOut' = BuildArgs(argStr, stack, DestLayerPath, def)
    /\ argOp' = "BuildArgs"
    /\ UNCHANGED <<argStr, argIn>>
    /\ UNCHANGED <<memVars, orchVars, restVars>>

\* AddDefaultPath is exported: it is called here on any list of words
CallAddDefaultPath ==
    /\ argOp = "none"
    /\ ~Parse(argStr).err
    /\ \E def \in DefaultPaths :
          /\ argDefault' = def
          /\ argIn' = Parse(argStr).val
          /\ argOut' = [err |-> FALSE, val |-> AddDefaultPath(Parse(argStr).val, def)]
    /\ argOp' = "AddDefaultPath"
    /\ UNCHANGED <<argStr, argStack>>
    /\ UNCHANGED <<memVars, orchVars, restVars>>

ArgNext == CallFilterInstallArgs \/ CallBuildArgs \/ CallAddDefaultPath

(***************************************************************************)
(* The workspace resolver.                                                 *)
(***************************************************************************)
\* url.Parse on the strings of the model: the scheme atom, then the path up
\* to a "#", then the fragment.  Every string of the model parses.
URLParse(raw) ==
    LET scheme == IF raw # <<>> /\ raw[1] = "path+file://" THEN "path+file" ELSE ""
        rest == IF scheme = "" THEN raw ELSE Tail(raw)
        hash == Index(rest, "#")
    IN  [Scheme |-> scheme,
         Path |-> IF hash = 0 THEN rest ELSE SubSeq(rest, 1, hash - 1),
         Fragment |-> IF hash = 0 THEN <<>> ELSE SubSeq(rest, hash + 1, Len(rest))]

\* CargoRunner.makeFilterMap: the keys of the map
makeFilterMap(cargoWorkspaceMembers) ==
    IF cargoWorkspaceMembers = <<>>
    THEN {}
    ELSE (IF ~Contains(cargoWorkspaceMembers, ",") THEN {cargoWorkspaceMembers} ELSE {})
             \cup {TrimSpace(Split(cargoWorkspaceMembers, ",")[i]) :
                      i \in 1..Len(Split(cargoWorkspaceMembers, ","))}

\* the condition under which the loops keep a member string
Retained(workspace, filterMap) ==
    \/ filterMap # {} /\ TrimSpace(SplitN(workspace, " ", 3)[1]) \in filterMap
    \/ filterMap = {}

\* the loop of WorkspaceMembers; parts[2] of a retained member string with
\* fewer than three parts is an index out of range: the program panics
RECURSIVE MembersLoop(_, _, _, _)
MembersLoop(workspaceMembers, i, filterMap, paths) ==
    IF i > Len(workspaceMembers) THEN [kind |-> "ok", val |-> paths]
    ELSE IF ~Retained(workspaceMembers[i], filterMap)
    THEN MembersLoop(workspaceMembers, i + 1, filterMap, paths)
    ELSE IF Len(SplitN(workspaceMembers[i], " ", 3)) < 3
    THEN [kind |-> "panic", val |-> <<>>]
    ELSE MembersLoop(workspaceMembers, i + 1, filterMap,
             Append(paths,
                 URLParse(TrimSuffix(TrimPrefix(SplitN(workspaceMembers[i], " ", 3)[3], <<"(">>),
                                     <<")">>))))

WorkspaceMembers(workspaceMembers, cargoWorkspaceMembers) ==
    MembersLoop(workspaceMembers, 1, makeFilterMap(cargoWorkspaceMembers), <<>>)

(***************************************************************************)
(* Inputs of the workspace resolver: what `cargo metadata` prints for a    *)
(* package.  Cargo up to 1.76 prints the package id as                     *)
(* "<name> <version> (<uri>)", cargo 1.77 and later as "<uri>#<version>".  *)
(***************************************************************************)
ProjectRoot == <<"/workspace">>

MemberPackages ==
    { [name |-> <<"a">>, dir |-> <<"/workspace", "/a">>, id |-> "spaced"],
      [name |-> <<"b">>, dir |-> <<"/workspace", "/b">>, id |-> "spaced"],
      [name |-> <<"app">>, dir |-> ProjectRoot, id |-> "spaced"],
      [name |-> <<"c">>, dir |-> <<"/workspace", "/my", " ", "c">>, id |-> "spaced"],
      [name |-> <<"d">>, dir |-> <<"/workspace", "/d">>, id |-> "uri"] }

\* the member string cargo prints for a package
MemberID(pkg) ==
    IF pkg.id = "spaced"
    THEN pkg.name \o <<" ", "1.0", " ", "(", "path+file://">> \o pkg.dir \o <<")">>
    ELSE <<"path+file://">> \o pkg.dir \o <<"#", "1.0">>

MemberFilters ==
    { <<>>, <<"a">>, <<"b", ",", "a">>, <<"a", ",", " ", "b", " ">>, <<" ", "a">>,
      <<"c", ",", "app">>, <<"zzz">>, <<"d">> }

NoMembers == [kind |-> "none", val |-> <<>>]

MemInit ==
    /\ \E pkgs \in SeqsNoRepeat(MemberPackages, MaxMembers) :
          mdMembers = [i \in 1..Len(pkgs) |-> MemberID(pkgs[i])]
    /\ memFilter \in MemberFilters
    /\ memOp = "none"
    /\ memOut = NoMembers

MemIdle ==
    /\ mdMembers = <<>>
    /\ memFilter = <<>>
    /\ memOp = "idle"
    /\ memOut = NoMembers

CallWorkspaceMembers ==
    /\ memOp = "none"
    /\ memOp' = "WorkspaceMembers"
    /\ memOut' = WorkspaceMembers(mdMembers, memFilter)
    /\ UNCHANGED <<mdMembers, memFilter>>
    /\ UNCHANGED <<argVars, orchVars, restVars>>

MemNext == CallWorkspaceMembers

(***************************************************************************)
(* The build orchestrator: Build.Build creates the runner and the Cargo    *)
(* layer contributor (NewCargo); the lifecycle then calls Cargo.Contribute.*)
(* The configuration is argStr (BP_CARGO_INSTALL_ARGS), memFilter          *)
(* (BP_CARGO_WORKSPACE_MEMBERS) and argStack; mdMembers is what            *)
(* `cargo metadata` prints.                                                *)
(***************************************************************************)
\* the roots RestoreAll and PreserveAll are called with, in call order:
\* the target link's destination, CARGO_HOME, the output layer
Roots == <<"target", "home", "layer">>

\* the entries of the project directory before the build, in the order
\* os.ReadDir lists them
SourceListing == <<"Cargo.lock", "Cargo.toml", "src", "static", "target">>

SourceFiles == {SourceListing[i] : i \in 1..Len(SourceListing)}

ExcludeFolders == {"static"}

\* the metadata map NewCargo hands to libpak.NewLayerContributor
Fingerprint(installArgs, workspaceMembers, stack, files) ==
    [additional_arguments |-> installArgs, workspace_members |-> workspaceMembers,
     stack |-> stack, files |-> files, cargo_version |-> "1.0", rust_version |-> "1.0"]

\* the layer has never been populated
NoMetadata == [files |-> "none"]

\* a gate that compares nothing
NeedsBuildNever(recorded, want) == recorded = NoMetadata

\* the fingerprint gate: the build runs unless the recorded metadata is the
\* expected one (build.go: !ok || sha != cargoLockHash)
NeedsBuild(recorded, want) == recorded = NoMetadata \/ recorded # want

\* Cargo.IsPathSet
IsPathSet(installArgs) ==
    LET envArgs == FilterInstallArgs(installArgs)
    IN  IF envArgs.err
        THEN [err |-> TRUE, val |-> FALSE]
        ELSE [err |-> FALSE,
              val |-> \E i \in 1..Len(envArgs.val) : IsPathArg(envArgs.val[i])]

\* one install for every member but the last
InstallPlanDropsLast(ms, isPathSet, applicationPath) ==
    IF Len(ms) = 0 THEN << <<".">> >>
    ELSE IF (Len(ms) = 1 /\ ms[1].Path = applicationPath) \/ isPathSet THEN << <<".">> >>
    ELSE [i \in 1..(Len(ms) - 1) |-> ms[i].Path]

\* one install per member even when the user set --path
InstallPlanIgnoresPath(ms, isPathSet, applicationPath) ==
    IF Len(ms) = 0 THEN << <<".">> >>
    ELSE IF Len(ms) = 1 /\ ms[1].Path = applicationPath THEN << <<".">> >>
    ELSE [i \in 1..Len(ms) |-> ms[i].Path]

\* a single member installed as the whole project wherever it lies
InstallPlanSingleIsWhole(ms, isPathSet, applicationPath) ==
    IF Len(ms) = 0 THEN << <<".">> >>
    ELSE IF Len(ms) = 1 \/ isPathSet THEN << <<".">> >>
    ELSE [i \in 1..Len(ms) |-> ms[i].Path]

\* the whole project installed twice when there are no members
InstallPlanTwiceWhenEmpty(ms, isPathSet, applicationPath) ==
    IF Len(ms) = 0 THEN << <<".">>, <<".">> >>
    ELSE IF (Len(ms) = 1 /\ ms[1].Path = applicationPath) \/ isPathSet THEN << <<".">> >>
    ELSE [i \in 1..Len(ms) |-> ms[i].Path]

\* the decision of Contribute: the member paths InstallMember is called
\* with (Install is InstallMember with ".")
InstallPlan(ms, isPathSet, applicationPath) ==
    IF Len(ms) = 0 THEN << <<".">> >>
    ELSE IF (Len(ms) = 1 /\ ms[1].Path = applicationPath) \/ isPathSet THEN << <<".">> >>
    ELSE [i \in 1..Len(ms) |-> ms[i].Path]

\* a call that reuses the layer returns at once
AfterReuseReturns == "done"

\* Contribute after LayerContributor.Contribute returned the reused layer
\* without error: "Removing source code"
AfterReuse == "cleanup"

\* the member loop ends after the first member
AfterPruneStops(i, memberPaths) == "sbom"

\* the member loop: the next InstallMember, or the step after the loop
AfterPrune(i, memberPaths) == IF i + 1 > Len(memberPaths) THEN "sbom" ELSE "install"

\* the member loop goes on after a prune that failed
AfterCleanupErrorGoesOn(i, memberPaths) == AfterPrune(i, memberPaths)

\* InstallMember returns the error of CleanCargoHomeCache and Contribute
\* returns it in turn
AfterCleanupError(i, memberPaths) == "failed"

\* the build goes on after an install that failed
AfterInstallGoesOn(ok) == "prune"

\* InstallMember after Executor.Execute: an error ends the build
AfterInstall(ok) == IF ok THEN "prune" ELSE "failed"

\* InstallMember's update of PATH (sherpa.AppendToEnvVar and os.Setenv)
PathAfterInstall(path, destLayerPath) ==
    IF path # <<>> /\ ~(\E i \in 1..Len(path) : HasPrefix(path[i], destLayerPath))
    THEN Append(path, destLayerPath \o <<"/bin">>)
    ELSE path

OrchArgStrings ==
    { <<>>, <<"--locked">>, <<"--path=", "x">>, <<"--locked", " ", "--path", " ", "x">>,
      <<"--root", " ", "--path=", "x">>, <<"'", "x">> }

OrchPackages ==
    {pkg \in MemberPackages : pkg.name \in { <<"a">>, <<"b">>, <<"app">>, <<"d">> }}

OrchFilters == { <<>>, <<"b">>, <<"zzz">> }

OrchInit ==
    /\ pc = "new"
    /\ err = ""
    /\ srcHash \in {"h1"}
    /\ prevMetadata \in
          { NoMetadata,
            Fingerprint(argStr, memFilter, argStack, "h1"),
            Fingerprint(argStr, memFilter, argStack, "h0") }
    /\ layerMetadata = prevMetadata
    /\ expected = NoMetadata
    /\ members = <<>>
    /\ resolved = FALSE
    /\ plan = <<>>
    /\ idx = 1
    /\ invocations = <<>>
    /\ steps = <<>>
    /\ manifest = [r \in {"target", "home", "layer"} |->
                      IF prevMetadata = NoMetadata THEN "none" ELSE "old"]
    /\ appFiles = SourceFiles
    /\ envPath = << <<"/usr/bin">> >>
    /\ restored = <<>>
    /\ preserved = <<>>

OrchConfig ==
    /\ argStr \in OrchArgStrings
    /\ argOp = "config"
    /\ argStack \in Stacks
    /\ argDefault = <<>>
    /\ argIn = <<>>
    /\ argOut = NoResult
    /\ \E pkgs \in SeqsNoRepeat(OrchPackages, MaxMembers) :
          mdMembers = [i \in 1..Len(pkgs) |-> MemberID(pkgs[i])]
    /\ memFilter \in OrchFilters
    /\ memOp = "config"
    /\ memOut = NoMembers

OrchIdle ==
    /\ pc = "idle"
    /\ err = ""
    /\ srcHash = "h1"
    /\ prevMetadata = NoMetadata
    /\ layerMetadata = NoMetadata
    /\ expected = NoMetadata
    /\ members = <<>>
    /\ resolved = FALSE
    /\ plan = <<>>
    /\ idx = 1
    /\ invocations = <<>>
    /\ steps = <<>>
    /\ manifest = [r \in {"target", "home", "layer"} |-> "none"]
    /\ appFiles = SourceFiles
    /\ envPath = << <<"/usr/bin">> >>
    /\ restored = <<>>
    /\ preserved = <<>>

\* the build ends with an error
Fail(why) ==
    /\ pc' = "failed"
    /\ err' = why

\* NewCargo: the file listing hash, `cargo version`, `rustc --version`, and
\* the expected layer metadata
NewCargo ==
    /\ pc = "new"
    /\ \E ok \in BOOLEAN :
          IF ok
          THEN /\ expected' = Fingerprint(argStr, memFilter, argStack, srcHash)
               /\ steps' = steps \o <<"cargo version", "rustc version">>
               /\ pc' = "contribute"
               /\ UNCHANGED err
          ELSE /\ Fail("new")
               /\ UNCHANGED <<expected, steps>>
    /\ UNCHANGED <<argVars, memVars, restVars>>
    /\ UNCHANGED <<restored, preserved>>
    /\ UNCHANGED <<srcHash, prevMetadata, layerMetadata, members, resolved, plan, idx,
                   invocations, manifest, appFiles, envPath>>

\* Cargo.Contribute enters LayerContributor.Contribute: with the expected
\* metadata recorded the layer is reused and the function that builds is not
\* called; otherwise the layer directory is emptied and the function called
LayerContribute ==
    /\ pc = "contribute"
    /\ IF NeedsBuild(layerMetadata, expected)
       THEN /\ pc' = "restore"
            /\ manifest' = [manifest EXCEPT !["layer"] = "none"]
            /\ steps' = Append(steps, "reset layer")
       ELSE /\ pc' = AfterReuse
            /\ steps' = Append(steps, "reuse layer")
            /\ UNCHANGED manifest
    /\ UNCHANGED <<argVars, memVars, restVars>>
    /\ UNCHANGED <<restored, preserved>>
    /\ UNCHANGED <<err, srcHash, prevMetadata, layerMetadata, expected, members, resolved,
                   plan, idx, invocations, appFiles, envPath>>

\* os.Readlink of the target link, os.LookupEnv("CARGO_HOME"), RestoreAll
RestoreAll ==
    /\ pc = "restore"
    /\ \E outcome \in {"ok", "no target link", "no CARGO_HOME", "restore failed"} :
          IF outcome = "ok"
          THEN /\ pc' = "resolve"
               /\ steps' = Append(steps, "restore")
               /\ restored' = Roots
               /\ UNCHANGED err
          ELSE /\ Fail(outcome)
               /\ \E k \in 1..Len(Roots) :
                     restored' = IF outcome = "restore failed"
                                 THEN SubSeq(Roots, 1, k - 1)
                                 ELSE <<>>
               /\ UNCHANGED steps
    /\ UNCHANGED preserved
    /\ UNCHANGED <<argVars, memVars, restVars>>
    /\ UNCHANGED <<srcHash, prevMetadata, layerMetadata, expected, members, resolved,
                   plan, idx, invocations, manifest, appFiles, envPath>>

\* CargoService.WorkspaceMembers: `cargo metadata`, then the member loop
ResolveMembers ==
    /\ pc = "resolve"
    /\ \E ok \in BOOLEAN :
          IF ~ok
          THEN /\ Fail("unable to fetch members")
               /\ steps' = Append(steps, "metadata")
               /\ UNCHANGED <<members, resolved>>
          ELSE /\ steps' = Append(steps, "metadata")
               /\ IF WorkspaceMembers(mdMembers, memFilter).kind = "panic"
                  THEN /\ pc' = "panicked"
                       /\ err' = "index out of range"
                       /\ UNCHANGED <<members, resolved>>
                  ELSE /\ pc' = "decide"
                       /\ members' = WorkspaceMembers(mdMembers, memFilter).val
                       /\ resolved' = TRUE
                       /\ UNCHANGED err
    /\ UNCHANGED <<argVars, memVars, restVars>>
    /\ UNCHANGED <<restored, preserved>>
    /\ UNCHANGED <<srcHash, prevMetadata, layerMetadata, expected, plan, idx,
                   invocations, manifest, appFiles, envPath>>

\* Cargo.IsPathSet and the choice between Install and InstallMember
DecidePlan ==
    /\ pc = "decide"
    /\ IF IsPathSet(argStr).err
       THEN /\ Fail("unable to check if path set")
            /\ UNCHANGED <<plan, steps>>
       ELSE /\ plan' = InstallPlan(members, IsPathSet(argStr).val, ProjectRoot)
            /\ steps' = IF Len(members) = 0 THEN Append(steps, "warn") ELSE steps
            /\ pc' = "install"
            /\ UNCHANGED err
    /\ UNCHANGED <<argVars, memVars, restVars>>
    /\ UNCHANGED <<restored, preserved>>
    /\ UNCHANGED <<srcHash, prevMetadata, layerMetadata, expected, members, resolved, idx,
                   invocations, manifest, appFiles, envPath>>

\* InstallMember up to the end of Executor.Execute
InstallExec ==
    /\ pc = "install"
    /\ idx <= Len(plan)
    /\ envPath' = PathAfterInstall(envPath, DestLayerPath)
    /\ IF BuildArgs(argStr, argStack, DestLayerPath, plan[idx]).err
       THEN /\ Fail("unable to build args")
            /\ UNCHANGED <<invocations, steps>>
       ELSE \E ok \in BOOLEAN :
               /\ invocations' = Append(invocations,
                      [args |-> BuildArgs(argStr, argStack, DestLayerPath, plan[idx]).val,
                       dir |-> ProjectRoot, member |-> plan[idx], ok |-> ok])
               /\ steps' = Append(steps, "install")
               /\ pc' = AfterInstall(ok)
               /\ err' = IF ok THEN err ELSE "unable to build"
    /\ UNCHANGED <<argVars, memVars, restVars>>
    /\ UNCHANGED <<restored, preserved>>
    /\ UNCHANGED <<srcHash, prevMetadata, layerMetadata, expected, members, resolved, plan,
                   idx, manifest, appFiles>>

\* a prune that keeps the files at the top of CARGO_HOME
ManifestKeptByPrune(m) == m

\* CleanCargoHomeCache removes every entry at the top of CARGO_HOME that is
\* not one of the directories bin, registry and git: mtimes.json goes
ManifestAfterPrune(m) == [m EXCEPT !["home"] = "none"]

\* InstallMember's CleanCargoHomeCache, and the loop over the members
CleanCache ==
    /\ pc = "prune"
    /\ steps' = Append(steps, "prune")
    /\ \E ok \in BOOLEAN :
          IF ok
          THEN /\ manifest' = ManifestAfterPrune(manifest)
               /\ idx' = idx + 1
               /\ pc' = AfterPrune(idx, plan)
               /\ UNCHANGED err
          ELSE /\ pc' = AfterCleanupError(idx, plan)
               /\ err' = "unable to cleanup"
               /\ idx' = IF AfterCleanupError(idx, plan) = "failed" THEN idx ELSE idx + 1
               /\ UNCHANGED manifest
    /\ UNCHANGED <<argVars, memVars, restVars>>
    /\ UNCHANGED <<restored, preserved>>
    /\ UNCHANGED <<srcHash, prevMetadata, layerMetadata, expected, members, resolved, plan,
                   invocations, appFiles, envPath>>

\* SBOMScanner.ScanLayer when Cargo.RunSBOMScan is set
ScanSBOM ==
    /\ pc = "sbom"
    /\ \E runSBOMScan \in BOOLEAN, ok \in BOOLEAN :
          IF ~runSBOMScan
          THEN /\ pc' = "preserve"
               /\ UNCHANGED <<err, steps>>
          ELSE IF ok
          THEN /\ pc' = "preserve"
               /\ steps' = Append(steps, "sbom")
               /\ UNCHANGED err
          ELSE /\ Fail("unable to create SBoM")
               /\ steps' = Append(steps, "sbom")
    /\ UNCHANGED <<argVars, memVars, restVars>>
    /\ UNCHANGED <<restored, preserved>>
    /\ UNCHANGED <<srcHash, prevMetadata, layerMetadata, expected, members, resolved, plan,
                   idx, invocations, manifest, appFiles, envPath>>

\* PreserveAll over the three roots: Preserve creates the root's mtimes.json
\* and then walks the tree; it may fail at either point
PreserveAll ==
    /\ pc = "preserve"
    /\ steps' = Append(steps, "preserve")
    /\ \/ /\ manifest' = [r \in DOMAIN manifest |-> "new"]
          /\ preserved' = Roots
          /\ pc' = "record"
          /\ UNCHANGED err
       \/ \E k \in 1..Len(Roots), at \in {"create", "walk"} :
             /\ preserved' = SubSeq(Roots, 1, k - 1)
             /\ manifest' = [r \in DOMAIN manifest |->
                   IF \E j \in 1..(k - 1) : Roots[j] = r THEN "new"
                   ELSE IF Roots[k] = r /\ at = "walk" THEN "partial"
                   ELSE manifest[r]]
             /\ Fail("unable to preserve all")
    /\ UNCHANGED restored
    /\ UNCHANGED <<argVars, memVars, restVars>>
    /\ UNCHANGED <<srcHash, prevMetadata, layerMetadata, expected, members, resolved, plan,
                   idx, invocations, appFiles, envPath>>

\* LayerContributor.Contribute after the function returned without error:
\* the expected metadata becomes the layer's metadata
RecordMetadata ==
    /\ pc = "record"
    /\ layerMetadata' = expected
    /\ pc' = "cleanup"
    /\ UNCHANGED <<argVars, memVars, restVars>>
    /\ UNCHANGED <<restored, preserved>>
    /\ UNCHANGED <<err, srcHash, prevMetadata, expected, members, resolved, plan, idx,
                   invocations, steps, manifest, appFiles, envPath>>

\* "Removing source code": every entry of the project directory that is not
\* excluded is removed, bin is created and the layer's binaries are linked
SourceCleanup ==
    /\ pc = "cleanup"
    /\ steps' = Append(steps, "cleanup")
    /\ \E ok \in BOOLEAN :
          IF ok
          THEN /\ appFiles' = (appFiles \cap ExcludeFolders) \cup {"bin"}
               /\ pc' = "done"
               /\ UNCHANGED err
          ELSE \* the removal of entry k fails, or (past the listing) the
               \* creation of bin, or the walk that links the binaries
               /\ \E k \in {j \in 1..(Len(SourceListing) + 2) :
                             j > Len(SourceListing) \/ SourceListing[j] \notin ExcludeFolders} :
                     appFiles' =
                         (appFiles \ {SourceListing[i] : i \in 1..(k - 1) \cap 1..Len(SourceListing)})
                         \cup (appFiles \cap ExcludeFolders)
                         \cup (IF k = Len(SourceListing) + 2 THEN {"bin"} ELSE {})
               /\ Fail("cleanup")
    /\ UNCHANGED <<argVars, memVars, restVars>>
    /\ UNCHANGED <<restored, preserved>>
    /\ UNCHANGED <<srcHash, prevMetadata, layerMetadata, expected, members, resolved, plan,
                   idx, invocations, manifest, envPath>>

Next ==
    \/ NewCargo
    \/ LayerContribute
    \/ RestoreAll
    \/ ResolveMembers
    \/ DecidePlan
    \/ InstallExec
    \/ CleanCache
    \/ ScanSBOM
    \/ PreserveAll
    \/ RecordMetadata
    \/ SourceCleanup

(***************************************************************************)
(* The timestamp preserver (mtimes/mtimes.go) on a tree                    *)
(*   r/  a  d/  d/f  mtimes.json  z                                        *)
(* in which mtimes.json may be there already and z is absent, a file, or   *)
(* a symbolic link.  Times are ticks of the clock mtNow.                   *)
(***************************************************************************)
MtRoot == "r"

\* filepath.Join(path, PreserverMetadataFile)
MtManifest == "r/mtimes.json"

\* every path of the tree, in the lexical order filepath.WalkDir visits them
MtPaths == <<"r", "r/a", "r/d", "r/d/f", "r/mtimes.json", "r/z">>

MtPathSet == {MtPaths[i] : i \in 1..Len(MtPaths)}

\* a path no entry has
MtGone == "r/gone"

\* the log line of a Restore that found no manifest
NotRestored == "File modification times not restored"

\* fs.FileInfo.ModTime: the instant, in the local zone
ModTime(t) == [instant |-> t, loc |-> "Local"]

\* time.Time.UTC: the same instant, in UTC
UTC(tm) == [instant |-> tm.instant, loc |-> "UTC"]

\* the walk of filepath.WalkDir: the entries that exist, links not followed
WalkOrder(kind) == SelectSeq(MtPaths, LAMBDA q : kind[q] # "none")

\* the entry a path names once a final symbolic link is followed
FollowLink(kind, linkTo, path) == IF kind[path] = "link" THEN linkTo ELSE path

\* the entry os.Chtimes changes: it follows a symbolic link
ChtimesTarget(kind, linkTo, path) ==
    IF path \notin MtPathSet THEN MtGone ELSE FollowLink(kind, linkTo, path)

\* the record written with the time in the zone it was read in
EncodeRecordLocal(path, t) == [Path |-> path, MTime |-> ModTime(t)]

\* json.Encoder.Encode of Record{path, fileInfo.ModTime().UTC()}
EncodeRecord(path, t) == [Path |-> path, MTime |-> UTC(ModTime(t))]

\* a manifest of an earlier build: an entry that is gone, then one that is there
OldRecords == <<EncodeRecord(MtGone, 0), EncodeRecord("r/a", 0)>>

\* the clock may tick before a step
Ticks(now) == IF now < MaxClock THEN {now, now + 1} ELSE {now}

MtInit ==
    /\ \E zKind \in {"none", "file", "link"}, mKind \in {"none", "file"} :
          mtKind = [q \in MtPathSet |->
                      CASE q = "r/z" -> zKind
                        [] q = MtManifest -> mKind
                        [] q \in {"r", "r/d"} -> "dir"
                        [] OTHER -> "file"]
    /\ mtLinkTo \in {"r/a", MtGone}
    /\ mtKind["r/z"] # "link" => mtLinkTo = MtGone
    /\ mtMtime \in { [q \in MtPathSet |-> 1],
                     [q \in MtPathSet |-> IF q \in {"r/a", "r/d"} THEN 0 ELSE 1] }
    /\ mtAtime = [q \in MtPathSet |-> 1]
    /\ mtNow = 2
    /\ mtRecords = IF mtKind[MtManifest] = "file" THEN OldRecords ELSE <<>>
    /\ mtPc = "init"
    /\ mtIdx = 1
    /\ mtLog = <<>>
    /\ mtErr = ""
    /\ mtSaved = <<>>
    /\ mtBefore = <<>>
    /\ mtOps = <<>>

MtIdle ==
    /\ mtKind = [q \in MtPathSet |-> "none"]
    /\ mtLinkTo = MtGone
    /\ mtMtime = [q \in MtPathSet |-> 1]
    /\ mtAtime = [q \in MtPathSet |-> 1]
    /\ mtNow = 2
    /\ mtRecords = <<>>
    /\ mtPc = "idle"
    /\ mtIdx = 1
    /\ mtLog = <<>>
    /\ mtErr = ""
    /\ mtSaved = <<>>
    /\ mtBefore = <<>>
    /\ mtOps = <<>>

\* Preserve: os.Create of the manifest, which makes or truncates it
PreserveCreate ==
    /\ mtPc = "init"
    /\ mtOps' = Append(mtOps, "Preserve")
    /\ \E ok \in BOOLEAN, now \in Ticks(mtNow) :
          /\ mtNow' = now
          /\ IF ok
             THEN /\ mtKind' = [mtKind EXCEPT ![MtManifest] = "file"]
                  /\ mtMtime' = [q \in MtPathSet |->
                        IF q = MtManifest \/ (q = MtRoot /\ mtKind[MtManifest] = "none")
                        THEN now ELSE mtMtime[q]]
                  /\ mtRecords' = <<>>
                  /\ mtPc' = "walk"
                  /\ mtIdx' = 1
                  /\ UNCHANGED mtErr
             ELSE /\ mtPc' = "failed"
                  /\ mtErr' = "unable create metadata file"
                  /\ UNCHANGED <<mtKind, mtMtime, mtRecords, mtIdx>>
    /\ UNCHANGED <<mtLinkTo, mtAtime, mtLog, mtSaved, mtBefore>>
    /\ UNCHANGED mtOthers

\* Preserve: the walk function on one entry: d.Info, then the record is
\* encoded into the manifest, which is a write to the file
PreserveVisit ==
    /\ mtPc = "walk"
    /\ mtIdx <= Len(WalkOrder(mtKind))
    /\ \E ok \in BOOLEAN, now \in Ticks(mtNow) :
          /\ mtNow' = now
          /\ IF ok
             THEN /\ mtRecords' = Append(mtRecords,
                        EncodeRecord(WalkOrder(mtKind)[mtIdx], mtMtime[WalkOrder(mtKind)[mtIdx]]))
                  /\ mtMtime' = [mtMtime EXCEPT ![MtManifest] = now]
                  /\ mtIdx' = mtIdx + 1
                  /\ UNCHANGED <<mtPc, mtErr>>
             ELSE /\ mtPc' = "failed"
                  /\ mtErr' = "unable to recurse folder"
                  /\ UNCHANGED <<mtRecords, mtMtime, mtIdx>>
    /\ UNCHANGED <<mtKind, mtLinkTo, mtAtime, mtLog, mtSaved, mtBefore, mtOps>>
    /\ UNCHANGED mtOthers

\* Preserve: the walk is over, the manifest is closed
PreserveClose ==
    /\ mtPc = "walk"
    /\ mtIdx > Len(WalkOrder(mtKind))
    /\ mtPc' = "preserved"
    /\ mtSaved' = mtMtime
    /\ UNCHANGED <<mtKind, mtLinkTo, mtMtime, mtAtime, mtNow, mtRecords, mtIdx, mtLog,
                   mtErr, mtBefore, mtOps>>
    /\ UNCHANGED mtOthers

\* between Preserve and Restore something sets the modification time of an
\* entry: to the time it is then, or back to the origin as the test does
Touch ==
    /\ mtPc = "preserved"
    /\ Len(mtOps) <= MaxTouches
    /\ \E q \in {x \in MtPathSet : mtKind[x] \in {"file", "dir"}}, now \in Ticks(mtNow) :
          \E t \in {0, now} :
             /\ mtNow' = now
             /\ mtMtime' = [mtMtime EXCEPT ![q] = t]
    /\ mtOps' = Append(mtOps, "Touch")
    /\ UNCHANGED <<mtKind, mtLinkTo, mtAtime, mtRecords, mtPc, mtIdx, mtLog, mtErr,
                   mtSaved, mtBefore>>
    /\ UNCHANGED mtOthers

\* a manifest that is not there ends Restore with an error
AfterOpenNotExistFails == "failed"

\* Restore after os.Open found no manifest: return nil
AfterOpenNotExist == "restored"

\* Restore: os.Open of the manifest; one that is not there is no error
RestoreOpen ==
    /\ mtPc \in {"init", "preserved"}
    /\ mtOps' = Append(mtOps, "Restore")
    /\ mtBefore' = [m |-> mtMtime, a |-> mtAtime]
    /\ IF mtKind[MtManifest] = "none"
       THEN /\ mtLog' = Append(mtLog, NotRestored)
            /\ mtPc' = AfterOpenNotExist
            /\ UNCHANGED <<mtErr, mtIdx>>
       ELSE \E ok \in BOOLEAN :
               IF ok
               THEN /\ mtPc' = "restore"
                    /\ mtIdx' = 1
                    /\ UNCHANGED <<mtErr, mtLog>>
               ELSE /\ mtPc' = "failed"
                    /\ mtErr' = "unable open metadata file"
                    /\ UNCHANGED <<mtIdx, mtLog>>
    /\ UNCHANGED <<mtKind, mtLinkTo, mtMtime, mtAtime, mtNow, mtRecords, mtSaved>>
    /\ UNCHANGED mtOthers

\* the os.Chtimes calls of this Restore that failed on an entry that exists
ChtimesErrors(log) ==
    Cardinality({i \in 1..Len(log) : log[i] \in MtPathSet})

\* the loop ends at the first failure
AfterChtimesErrorStops(i) == Len(mtRecords) + 1

\* the loop goes on after a failure: the next record is the one after
AfterChtimesError(i) == i + 1

\* Restore: one record is decoded and os.Chtimes(r.Path, r.MTime, r.MTime)
\* is called; its failure is logged
RestoreRecord ==
    /\ mtPc = "restore"
    /\ mtIdx <= Len(mtRecords)
    /\ LET r == mtRecords[mtIdx]
           target == ChtimesTarget(mtKind, mtLinkTo, r.Path)
       IN  \E ok \in BOOLEAN :
              /\ ok => target \in MtPathSet /\ mtKind[target] # "none"
              /\ ~ok => (target = MtGone \/ ChtimesErrors(mtLog) < MaxChtimesErrors)
              /\ IF ok
                 THEN /\ mtMtime' = [mtMtime EXCEPT ![target] = r.MTime.instant]
                      /\ mtAtime' = [mtAtime EXCEPT ![target] = r.MTime.instant]
                      /\ mtIdx' = mtIdx + 1
                      /\ UNCHANGED mtLog
                 ELSE /\ mtLog' = Append(mtLog, r.Path)
                      /\ mtIdx' = AfterChtimesError(mtIdx)
                      /\ UNCHANGED <<mtMtime, mtAtime>>
    /\ UNCHANGED <<mtKind, mtLinkTo, mtNow, mtRecords, mtPc, mtErr, mtSaved, mtBefore, mtOps>>
    /\ UNCHANGED mtOthers

\* Restore: no record is left, the manifest is closed
RestoreClose ==
    /\ mtPc = "restore"
    /\ mtIdx > Len(mtRecords)
    /\ mtPc' = "restored"
    /\ UNCHANGED <<mtKind, mtLinkTo, mtMtime, mtAtime, mtNow, mtRecords, mtIdx, mtLog,
                   mtErr, mtSaved, mtBefore, mtOps>>
    /\ UNCHANGED mtOthers

MtNext ==
    \/ PreserveCreate
    \/ PreserveVisit
    \/ PreserveClose
    \/ Touch
    \/ RestoreOpen
    \/ RestoreRecord
    \/ RestoreClose

(***************************************************************************)
(* The cache layer contributor (cargo/cache.go).                           *)
(***************************************************************************)
\* layer.Path of the cache layer
CachePath == "/layers/cache"

\* what <AppPath>/target is when it is not there
NoTarget == [kind |-> "absent", to |-> "", content |-> {}]

\* os.RemoveAll of a link whose destination is emptied with it
LayerAfterRemoveAllFollows(target, layer) ==
    IF target.kind = "link" /\ target.to = CachePath
    THEN [layer EXCEPT !.content = {}]
    ELSE layer

\* the layer directory after os.RemoveAll(targetPath): a link is unlinked,
\* its destination is not entered
LayerAfterRemoveAll(target, layer) == layer

CacheInit ==
    /\ cTarget \in
          { NoTarget,
            [kind |-> "dir", to |-> "", content |-> {}],
            [kind |-> "dir", to |-> "", content |-> {"debug", "release"}],
            [kind |-> "file", to |-> "", content |-> {}],
            [kind |-> "link", to |-> CachePath, content |-> {}],
            [kind |-> "link", to |-> "/elsewhere", content |-> {}] }
    /\ cLayer \in
          { [exists |-> FALSE, content |-> {}, Cache |-> FALSE] } \cup
          { [exists |-> TRUE, content |-> c, Cache |-> FALSE] :
                c \in SUBSET {"debug", "CACHEDIR.TAG", "mtimes.json"} }
    /\ cLayer0 = cLayer.content
    /\ cCalls = 0
    /\ cErr = ""

CacheIdle ==
    /\ cTarget = NoTarget
    /\ cLayer = [exists |-> FALSE, content |-> {}, Cache |-> FALSE]
    /\ cLayer0 = {}
    /\ cCalls = 0
    /\ cErr = "idle"

\* Cache.Contribute: os.MkdirAll(layer.Path), os.RemoveAll(targetPath),
\* os.Symlink(layer.Path, targetPath), layer.Cache = true
CacheContribute ==
    /\ cErr # "idle"
    /\ cCalls < MaxCalls
    /\ cCalls' = cCalls + 1
    /\ UNCHANGED cLayer0
    /\ \E failAt \in {"none", "MkdirAll", "RemoveAll", "Symlink"} :
          CASE failAt = "MkdirAll" ->
                 /\ cErr' = "unable to create layer directory"
                 /\ UNCHANGED <<cTarget, cLayer>>
            [] failAt = "RemoveAll" ->
                 /\ cTarget.kind # "absent"
                 /\ cErr' = "unable to delete target directory"
                 /\ cLayer' = [LayerAfterRemoveAll(cTarget, cLayer) EXCEPT !.exists = TRUE]
                 /\ \E left \in SUBSET cTarget.content :
                       /\ cTarget.kind = "dir" => left # {}
                       /\ cTarget' = [cTarget EXCEPT !.content = left]
            [] failAt = "Symlink" ->
                 /\ cErr' = "unable to link cache"
                 /\ cLayer' = [LayerAfterRemoveAll(cTarget, cLayer) EXCEPT !.exists = TRUE]
                 /\ cTarget' = NoTarget
            [] OTHER ->
                 /\ cErr' = ""
                 /\ cLayer' = [LayerAfterRemoveAll(cTarget, cLayer) EXCEPT
                                  !.exists = TRUE, !.Cache = TRUE]
                 /\ cTarget' = [kind |-> "link", to |-> CachePath, content |-> {}]
    /\ UNCHANGED cacheOthers

CacheNext == CacheContribute

(***************************************************************************)
(* CleanCargoHomeCache (runner/runners.go).  A path under CARGO_HOME is    *)
(* the sequence of its names.                                              *)
(***************************************************************************)
\* the names os.ReadDir may list, sorted as it sorts them
PhTop == <<"baz", "bin", "git", "mtimes.json", "registry">>

PhRegistry == <<"cache", "foo", "index", "src">>

PhGit == <<"bar", "db">>

\* entries further down, one in each directory of the second level and in bin
PhDeep ==
    { <<"bin", "tool">>, <<"registry", "cache", "c">>, <<"registry", "index", "i">>,
      <<"registry", "foo", "f">>, <<"git", "db", "d">>, <<"git", "bar", "b">> }

PhPaths ==
    {<<PhTop[i]>> : i \in 1..Len(PhTop)}
        \cup {<<"registry", PhRegistry[i]>> : i \in 1..Len(PhRegistry)}
        \cup {<<"git", PhGit[i]>> : i \in 1..Len(PhGit)}
        \cup PhDeep

\* the names the three loops pass over
KeepTop == {"bin", "registry", "git"}

KeepRegistry == {"index", "cache"}

KeepGit == {"db"}

\* an entry is passed over for its name alone
KeptByName(kind, dir, name, keep) == name \in keep

\* the loop's test: file.IsDir() && file.Name() == ...
Kept(kind, dir, name, keep) == kind[dir \o <<name>>] = "dir" /\ name \in keep

\* os.RemoveAll(path): the entry and everything under it
RemoveAll(kind, path) == [q \in PhPaths |-> IF HasPrefix(q, path) THEN "none" ELSE kind[q]]

\* one loop over the listing of dir, stopped before entry number stop
RECURSIVE PruneLoop(_, _, _, _, _, _)
PruneLoop(kind, dir, names, keep, i, stop) ==
    IF i > Len(names) \/ i >= stop THEN kind
    ELSE IF kind[dir \o <<names[i]>>] = "none" \/ Kept(kind, dir, names[i], keep)
    THEN PruneLoop(kind, dir, names, keep, i + 1, stop)
    ELSE PruneLoop(RemoveAll(kind, dir \o <<names[i]>>), dir, names, keep, i + 1, stop)

\* the entries of a listing that the loop removes
Removable(kind, dir, names, keep) ==
    {i \in 1..Len(names) :
        kind[dir \o <<names[i]>>] # "none" /\ ~Kept(kind, dir, names[i], keep)}

\* a tree is well formed: what has an entry under it is a directory
WellFormed(kind) ==
    \A q \in PhPaths :
        (Len(q) > 1 /\ kind[q] # "none") => kind[SubSeq(q, 1, Len(q) - 1)] = "dir"

\* the kinds an entry of the first two levels may have
PhKinds(path) ==
    CASE path = <<"bin">> -> {"none", "dir", "file"}
      [] path = <<"registry">> -> {"none", "dir", "link"}
      [] path = <<"registry", "cache">> -> {"none", "dir", "file"}
      [] path = <<"mtimes.json">> -> {"none", "file"}
      [] OTHER -> {"none", "dir"}

\* the tree with the given kinds in the first level (top) and the second
\* (registry, git): an entry is there only in a directory, and the entries
\* further down are there whenever their directory is
PhTree(top, registry, git) ==
    LET level1(q) == top[CHOOSE i \in 1..Len(PhTop) : PhTop[i] = q[1]]
        second(q) == IF q[1] = "registry"
                     THEN registry[CHOOSE i \in 1..Len(PhRegistry) : PhRegistry[i] = q[2]]
                     ELSE git[CHOOSE i \in 1..Len(PhGit) : PhGit[i] = q[2]]
        level2(q) == IF level1(q) = "dir" THEN second(q) ELSE "none"
    IN  [q \in PhPaths |->
            CASE Len(q) = 1 -> level1(q)
              [] Len(q) = 2 /\ q \notin PhDeep -> level2(q)
              [] Len(q) = 2 /\ q \in PhDeep -> IF level1(q) = "dir" THEN "file" ELSE "none"
              [] OTHER -> IF level2(q) = "dir" THEN "file" ELSE "none"]

PruneInit ==
    /\ phHome \in BOOLEAN
    /\ \E top \in [1..Len(PhTop) -> {"none", "dir", "file", "link"}],
          registry \in [1..Len(PhRegistry) -> {"none", "dir", "file"}],
          git \in [1..Len(PhGit) -> {"none", "dir"}] :
          /\ \A i \in 1..Len(PhTop) : top[i] \in PhKinds(<<PhTop[i]>>)
          /\ \A i \in 1..Len(PhRegistry) : registry[i] \in PhKinds(<<"registry", PhRegistry[i]>>)
          /\ phKind = IF phHome THEN PhTree(top, registry, git)
                      ELSE [q \in PhPaths |-> "none"]
    /\ phKind0 = phKind
    /\ phPc = "top"
    /\ phErr = ""

PruneIdle ==
    /\ phHome = FALSE
    /\ phKind = [q \in PhPaths |-> "none"]
    /\ phKind0 = phKind
    /\ phPc = "idle"
    /\ phErr = ""

\* one listing and its loop: all of it, or an error at the listing or at
\* the removal of one entry
PruneStep(dir, names, keep, next) ==
    \/ /\ phKind' = PruneLoop(phKind, dir, names, keep, 1, Len(names) + 1)
       /\ phPc' = next
       /\ UNCHANGED phErr
    \/ /\ IF dir = <<>> THEN TRUE ELSE phKind[dir] # "none"
       /\ phPc' = "failed"
       /\ phErr' = "unable to read directory"
       /\ UNCHANGED phKind
    \/ \E stop \in Removable(phKind, dir, names, keep) :
          /\ phKind' = PruneLoop(phKind, dir, names, keep, 1, stop)
          /\ phPc' = "failed"
          /\ phErr' = "unable to remove files"

\* os.ReadDir(c.CargoHome) and the first loop
PruneTop ==
    /\ phPc = "top"
    /\ IF ~phHome
       THEN /\ phPc' = "done"
            /\ UNCHANGED <<phKind, phErr>>
       ELSE PruneStep(<<>>, PhTop, KeepTop, "registry")
    /\ UNCHANGED <<phHome, phKind0>>
    /\ UNCHANGED pruneOthers

\* os.ReadDir(registryDir) and the second loop
PruneRegistry ==
    /\ phPc = "registry"
    /\ PruneStep(<<"registry">>, PhRegistry, KeepRegistry, "git")
    /\ UNCHANGED <<phHome, phKind0>>
    /\ UNCHANGED pruneOthers

\* os.ReadDir(gitDir) and the third loop
PruneGit ==
    /\ phPc = "git"
    /\ PruneStep(<<"git">>, PhGit, KeepGit, "done")
    /\ UNCHANGED <<phHome, phKind0>>
    /\ UNCHANGED pruneOthers

PruneNext == PruneTop \/ PruneRegistry \/ PruneGit

(***************************************************************************)
(* The source cleanup at the end of Cargo.Contribute (cargo/cargo.go):     *)
(* the project directory is emptied but for the names of ExcludeFolders,   *)
(* <project>/bin is made, and every entry under <layer>/bin is mirrored    *)
(* under <project>/bin: a directory as a directory, anything else as a     *)
(* symbolic link.  A path under bin is the sequence of its names.          *)
(***************************************************************************)
\* ioutil.ReadDir(c.ApplicationPath): the names it may list, sorted
ClListing == <<"Cargo.toml", "bin", "src", "static", "target">>

ClNames == {ClListing[i] : i \in 1..Len(ClListing)}

\* filepath.Walk(<layer>/bin): the entries below the root, in lexical order
BinWalk == << <<"app">>, <<"sub">>, <<"sub", "tool">> >>

\* the paths under <project>/bin
BinPaths == {<<"app">>, <<"old">>, <<"sub">>, <<"sub", "tool">>}

\* the values BP_CARGO_EXCLUDE_FOLDERS may name
ClExcludeNames == {"static", "bin", "templates"}

ExcludedAlways(name, excludeFolders) == TRUE

\* the inner loop: f.Name() == excludeFolder for some excludeFolder
Excluded(name, excludeFolders) == name \in excludeFolders

\* the names os.RemoveAll has been called on when the loop is at entry stop
Removed(top, excludeFolders, stop) ==
    {ClListing[j] : j \in {k \in 1..(stop - 1) :
                              /\ top[ClListing[k]] # "none"
                              /\ ~Excluded(ClListing[k], excludeFolders)}}

\* the walk function on one entry of <layer>/bin: [bin, ok]
WalkFn(layerBin, bin, q) ==
    IF layerBin[q] = "none"
    THEN [bin |-> bin, ok |-> TRUE]
    ELSE IF layerBin[q] = "dir"
    THEN \* os.MkdirAll(destPath)
         IF bin[q] \in {"none", "dir"}
         THEN [bin |-> [bin EXCEPT ![q] = "dir"], ok |-> TRUE]
         ELSE [bin |-> bin, ok |-> FALSE]
    ELSE \* os.Symlink(path, destPath)
         IF bin[q] = "none"
         THEN [bin |-> [bin EXCEPT ![q] = "link"], ok |-> TRUE]
         ELSE [bin |-> bin, ok |-> FALSE]

\* filepath.Walk from entry i on; it ends at the first error and at entry
\* stop, where a call fails for a reason outside the model
RECURSIVE WalkLoop(_, _, _, _)
WalkLoop(layerBin, bin, i, stop) ==
    IF i > Len(BinWalk)
    THEN [bin |-> bin, ok |-> TRUE]
    ELSE IF i = stop
    THEN [bin |-> bin, ok |-> FALSE]
    ELSE LET r == WalkFn(layerBin, bin, BinWalk[i])
         IN  IF r.ok THEN WalkLoop(layerBin, r.bin, i + 1, stop) ELSE r

NoBin == [q \in BinPaths |-> "none"]

\* the project directories a build may end with
ClTops ==
    {[n \in ClNames |->
        CASE n = "Cargo.toml" -> "file"
          [] n = "src" -> "dir"
          [] n = "static" -> s
          [] n = "target" -> t
          [] n = "bin" -> b] :
     s \in {"none", "dir"}, t \in {"none", "link"}, b \in {"none", "file", "dir"}}

\* what a bin directory of the project may hold
ClBins ==
    {[q \in BinPaths |->
        CASE q = <<"app">> -> a
          [] q = <<"old">> -> o
          [] q = <<"sub">> -> s
          [] q = <<"sub", "tool">> -> IF s = "dir" THEN t ELSE "none"] :
     a \in {"none", "file"}, o \in {"none", "file"}, s \in {"none", "file", "dir"},
     t \in {"none", "file"}}

\* what `cargo install --root <layer>` may leave under <layer>/bin
ClLayerBins ==
    {[q \in {<<>>} \cup BinPaths |->
        CASE q = <<>> -> "dir"
          [] q = <<"app">> -> a
          [] q = <<"old">> -> "none"
          [] q = <<"sub">> -> s
          [] q = <<"sub", "tool">> -> IF s = "dir" THEN t ELSE "none"] :
     a \in {"none", "file"}, s \in {"none", "dir"}, t \in {"none", "file"}}
    \cup {[q \in {<<>>} \cup BinPaths |-> "none"]}

CleanInit ==
    /\ clExclude \in SUBSET ClExcludeNames
    /\ clTop \in ClTops
    /\ clTop0 = clTop
    /\ clBin \in (IF clTop["bin"] = "dir" THEN ClBins ELSE {NoBin})
    /\ clBin0 = clBin
    /\ clLayerBin \in ClLayerBins
    /\ clFresh = FALSE
    /\ clPc = "remove"
    /\ clErr = ""

CleanIdle ==
    /\ clExclude = {}
    /\ clTop = [n \in ClNames |-> "none"]
    /\ clTop0 = clTop
    /\ clBin = NoBin
    /\ clBin0 = clBin
    /\ clLayerBin = [q \in {<<>>} \cup BinPaths |-> "none"]
    /\ clFresh = FALSE
    /\ clPc = "idle"
    /\ clErr = ""

\* the project directory after os.RemoveAll of the names in gone
TopWithout(gone) == [n \in ClNames |-> IF n \in gone THEN "none" ELSE clTop[n]]

BinWithout(gone) == IF "bin" \in gone THEN NoBin ELSE clBin

\* ioutil.ReadDir and the DELETE loop
CleanRemove ==
    /\ clPc = "remove"
    /\ \/ LET gone == Removed(clTop, clExclude, Len(ClListing) + 1)
          IN  /\ clTop' = TopWithout(gone)
              /\ clBin' = BinWithout(gone)
              /\ clPc' = "mkdir"
              /\ UNCHANGED clErr
       \/ /\ clPc' = "failed"
          /\ clErr' = "unable to list children"
          /\ UNCHANGED <<clTop, clBin>>
       \/ \E stop \in 1..Len(ClListing) :
             /\ clTop[ClListing[stop]] # "none"
             /\ ~Excluded(ClListing[stop], clExclude)
             /\ LET gone == Removed(clTop, clExclude, stop)
                IN  /\ clTop' = TopWithout(gone)
                    /\ clBin' = BinWithout(gone)
             /\ clPc' = "failed"
             /\ clErr' = "unable to remove"
    /\ UNCHANGED <<clExclude, clTop0, clBin0, clLayerBin, clFresh>>
    /\ UNCHANGED cleanOthers

\* os.MkdirAll(<project>/bin)
CleanMkdir ==
    /\ clPc = "mkdir"
    /\ \/ /\ clTop["bin"] \in {"none", "dir"}
          /\ clTop' = [clTop EXCEPT !["bin"] = "dir"]
          /\ clFresh' = (clTop["bin"] = "none")
          /\ clPc' = "walk"
          /\ UNCHANGED clErr
       \/ /\ clTop["bin"] # "dir"
          /\ clPc' = "failed"
          /\ clErr' = "unable make app path"
          /\ UNCHANGED <<clTop, clFresh>>
    /\ UNCHANGED <<clExclude, clTop0, clBin, clBin0, clLayerBin>>
    /\ UNCHANGED cleanOthers

\* filepath.Walk(<layer>/bin, ...)
CleanWalk ==
    /\ clPc = "walk"
    /\ IF clLayerBin[<<>>] = "none"
       THEN \* the walk function is called with the error of the lstat
            /\ clPc' = "failed"
            /\ clErr' = "unable to walk"
            /\ UNCHANGED clBin
       ELSE \E stop \in 1..(Len(BinWalk) + 1) :
               /\ stop <= Len(BinWalk) => clLayerBin[BinWalk[stop]] # "none"
               /\ LET r == WalkLoop(clLayerBin, clBin, 1, stop)
                  IN  /\ clBin' = r.bin
                      /\ clPc' = IF r.ok THEN "done" ELSE "failed"
                      /\ clErr' = IF r.ok THEN "" ELSE "unable to walk"
    /\ UNCHANGED <<clExclude, clTop, clTop0, clBin0, clLayerBin, clFresh>>
    /\ UNCHANGED cleanOthers

CleanNext == CleanRemove \/ CleanMkdir \/ CleanWalk

(***************************************************************************)
(* Functions that are called once on an input and return a result.         *)
(***************************************************************************)
NotCalled == [fn |-> "none"]

FnIdle ==
    /\ fnIn = [fn |-> "idle"]
    /\ fnOut = NotCalled

(***************************************************************************)
(* Detect (cargo/detect.go).  os.Stat on a name ends in one of three ways: *)
(* "ok", "notexist" (an error os.IsNotExist accepts) and "error" (any      *)
(* other error).                                                           *)
(***************************************************************************)
StatOutcomes == {"ok", "notexist", "error"}

PlanEntryRustCargo == "rust-cargo"

PlanEntrySyft == "syft"

cargoProjectTomlOnly(toml, lock) ==
    IF toml = "notexist" THEN [found |-> FALSE, err |-> ""]
    ELSE IF toml = "error"
    THEN [found |-> FALSE, err |-> "unable to determine if Cargo.toml exists"]
    ELSE [found |-> TRUE, err |-> ""]

\* Detect.cargoProject: Cargo.toml is looked at first, Cargo.lock only when
\* Cargo.toml was found
cargoProject(toml, lock) ==
    IF toml = "notexist" THEN [found |-> FALSE, err |-> ""]
    ELSE IF toml = "error"
    THEN [found |-> FALSE, err |-> "unable to determine if Cargo.toml exists"]
    ELSE IF lock = "notexist" THEN [found |-> FALSE, err |-> ""]
    ELSE IF lock = "error"
    THEN [found |-> FALSE, err |-> "unable to determine if Cargo.lock exists"]
    ELSE [found |-> TRUE, err |-> ""]

\* the one build plan of a passing detection
DetectPlans ==
    << [Provides |-> <<PlanEntryRustCargo>>,
        Requires |-> <<PlanEntrySyft, PlanEntryRustCargo, "rust">>] >>

\* Detect.Detect: the libcnb.DetectResult and the error
Detect(toml, lock) ==
    LET r == cargoProject(toml, lock)
    IN  IF r.err # ""
        THEN [fn |-> "Detect", Pass |-> FALSE, Plans |-> <<>>,
              err |-> "unable to detect cargo requirements"]
        ELSE IF ~r.found
        THEN [fn |-> "Detect", Pass |-> FALSE, Plans |-> <<>>, err |-> ""]
        ELSE [fn |-> "Detect", Pass |-> TRUE, Plans |-> DetectPlans, err |-> ""]

DetectInputs ==
    {[fn |-> "Detect", toml |-> t, lock |-> l] : t \in StatOutcomes, l \in StatOutcomes}

CallDetect ==
    /\ fnIn.fn = "Detect"
    /\ fnOut = NotCalled
    /\ fnOut' = Detect(fnIn.toml, fnIn.lock)
    /\ UNCHANGED fnIn
    /\ UNCHANGED fnOthers

(***************************************************************************)
(* Cargo.BuildProcessTypes (cargo/cargo.go).                               *)
(***************************************************************************)
\* filepath.Join(c.ApplicationPath, "bin", target)
BinCommand(target) == ProjectRoot \o <<"/bin/", target>>

\* the process appended for a target, before a default is chosen
Process(target, tiniEnabled) ==
    [Type |-> target,
     Command |-> IF tiniEnabled THEN <<"tini">> ELSE BinCommand(target),
     Arguments |-> IF tiniEnabled THEN <<"-g", "--", BinCommand(target)>> ELSE <<>>,
     Direct |-> TRUE,
     Default |-> FALSE]

DefaultIndexFirst(procs) == 1

\* the index the two loops at the end set Default on: the first process of
\* type web, procs[0] when there is none
DefaultIndex(procs) ==
    IF \E i \in 1..Len(procs) : procs[i].Type = "web"
    THEN CHOOSE i \in 1..Len(procs) :
            /\ procs[i].Type = "web"
            /\ \A j \in 1..(i - 1) : procs[j].Type # "web"
    ELSE 1

\* binaryTargets is what CargoService.ProjectTargets returned: [err, val]
BuildProcessTypes(binaryTargets, tiniEnabled) ==
    IF binaryTargets.err
    THEN [fn |-> "BuildProcessTypes", procs |-> <<>>,
          err |-> "unable to find project targets"]
    ELSE LET procs == [i \in 1..Len(binaryTargets.val) |->
                          Process(binaryTargets.val[i], tiniEnabled)]
         IN  [fn |-> "BuildProcessTypes",
              procs |-> IF Len(procs) > 0
                        THEN [procs EXCEPT ![DefaultIndex(procs)].Default = TRUE]
                        ELSE procs,
              err |-> ""]

TargetNames == {"web", "app", "worker"}

ProcessInputs ==
    {[fn |-> "BuildProcessTypes", binaryTargets |-> [err |-> FALSE, val |-> t],
      tiniEnabled |-> b] : t \in SeqsUpTo(TargetNames, MaxTargets), b \in BOOLEAN}
    \cup {[fn |-> "BuildProcessTypes", binaryTargets |-> [err |-> TRUE, val |-> <<>>],
            tiniEnabled |-> b] : b \in BOOLEAN}

CallBuildProcessTypes ==
    /\ fnIn.fn = "BuildProcessTypes"
    /\ fnOut = NotCalled
    /\ fnOut' = BuildProcessTypes(fnIn.binaryTargets, fnIn.tiniEnabled)
    /\ UNCHANGED fnIn
    /\ UNCHANGED fnOthers

(***************************************************************************)
(* CargoRunner.ProjectTargets (runner/runners.go) on the metadata          *)
(* [Packages, WorkspaceMembers] that `cargo metadata` printed.             *)
(***************************************************************************)
\* the sequences of a sequence of sequences, one after the other
RECURSIVE Flatten(_)
Flatten(ss) == IF ss = <<>> THEN <<>> ELSE Head(ss) \o Flatten(Tail(ss))

\* strings.HasPrefix(target.SrcPath, srcDir)
Under(srcPath, srcDir) == HasPrefix(srcPath, srcDir)

\* the loop over target.Kind: the name once for every kind that is bin
KindLoop(target, srcDir) ==
    Flatten([k \in 1..Len(target.Kind) |->
                IF target.Kind[k] = "bin" /\ Under(target.SrcPath, srcDir)
                THEN <<target.Name>>
                ELSE <<>>])

\* the loop over pkg.Targets
TargetLoop(pkg, srcDir) ==
    Flatten([t \in 1..Len(pkg.Targets) |-> KindLoop(pkg.Targets[t], srcDir)])

\* the first loop: the member strings the filter retains, in order
RetainedWorkspaces(workspaceMembers, filterMap) ==
    SelectSeq(workspaceMembers, LAMBDA w : Retained(w, filterMap))

\* the loop over the retained member strings, for one package
WorkspaceLoop(pkg, workspaces, srcDir) ==
    Flatten([w \in 1..Len(workspaces) |->
                IF pkg.ID = workspaces[w] THEN TargetLoop(pkg, srcDir) ELSE <<>>])

\* m is the metadata, or an error of fetchCargoMetadata: [err, Packages,
\* WorkspaceMembers]
ProjectTargets(m, srcDir, cargoWorkspaceMembers) ==
    IF m.err
    THEN [fn |-> "ProjectTargets", names |-> <<>>, err |-> "unable to load cargo metadata"]
    ELSE LET workspaces ==
                 RetainedWorkspaces(m.WorkspaceMembers, makeFilterMap(cargoWorkspaceMembers))
         IN  [fn |-> "ProjectTargets",
              names |-> Flatten([p \in 1..Len(m.Packages) |->
                                    WorkspaceLoop(m.Packages[p], workspaces, srcDir)]),
              err |-> ""]

\* the targets a package of the metadata may have: two binaries of the
\* project, a library of the project, a binary of a dependency under
\* CARGO_HOME, and a binary whose source is in /workspace-old
MetaTargets ==
    { [Name |-> "web", Kind |-> <<"bin">>, SrcPath |-> <<"/workspace", "/", "src/main.rs">>],
      [Name |-> "worker", Kind |-> <<"bin">>,
       SrcPath |-> <<"/workspace", "/", "src/bin/worker.rs">>],
      [Name |-> "core", Kind |-> <<"lib", "cdylib">>,
       SrcPath |-> <<"/workspace", "/", "src/lib.rs">>],
      [Name |-> "shim", Kind |-> <<"bin">>,
       SrcPath |-> <<"/cargo_home", "/", "registry/src/shim.rs">>],
      [Name |-> "old", Kind |-> <<"bin">>,
       SrcPath |-> <<"/workspace", "-old", "/", "src/main.rs">>] }

\* the packages of the workspace, by name
MetaPackages == {p \in MemberPackages : p.name \in {<<"a">>, <<"b">>}}

\* the package lists of the metadata: both packages, in either order
MetaPackageLists ==
    {pkgs \in SeqsNoRepeat(MetaPackages, Cardinality(MetaPackages)) :
        Len(pkgs) = Cardinality(MetaPackages)}

\* the target lists of package a; package b has no target or one binary of
\* the project
TargetLists == SeqsUpTo(MetaTargets, MaxPkgTargets)

OneBinary == {<<>>} \cup {<<t>> : t \in {u \in MetaTargets : u.Name \in {"web", "worker"}}}

TargetsInputs ==
    {[fn |-> "ProjectTargets",
      m |-> [err |-> FALSE,
             Packages |-> [i \in 1..Len(pkgs) |->
                              [ID |-> MemberID(pkgs[i]),
                               Targets |-> IF pkgs[i].name = <<"a">> THEN ta ELSE tb]],
             WorkspaceMembers |-> [i \in 1..Len(ws) |-> MemberID(ws[i])]],
      filter |-> f] :
        pkgs \in MetaPackageLists,
        ws \in SeqsNoRepeat(MetaPackages, Cardinality(MetaPackages)),
        ta \in TargetLists,
        tb \in OneBinary,
        f \in {<<>>, <<"a">>}}
    \cup {[fn |-> "ProjectTargets",
            m |-> [err |-> TRUE, Packages |-> <<>>, WorkspaceMembers |-> <<>>],
            filter |-> <<>>]}

CallProjectTargets ==
    /\ fnIn.fn = "ProjectTargets"
    /\ fnOut = NotCalled
    /\ fnOut' = ProjectTargets(fnIn.m, ProjectRoot, fnIn.filter)
    /\ UNCHANGED fnIn
    /\ UNCHANGED fnOthers

FnInputs == DetectInputs \cup ProcessInputs \cup TargetsInputs

FnInit ==
    /\ fnIn \in FnInputs
    /\ fnOut = NotCalled

FnNext == CallDetect \/ CallBuildProcessTypes \/ CallProjectTargets

RestIdle == MtIdle /\ CacheIdle /\ PruneIdle /\ CleanIdle /\ FnIdle

vars == <<argVars, memVars, orchVars, restVars>>

InitArgs == ArgInit /\ MemIdle /\ OrchIdle /\ RestIdle

SpecArgs == InitArgs /\ [][ArgNext]_vars

InitMembers == MemInit /\ ArgIdle /\ OrchIdle /\ RestIdle

SpecMembers == InitMembers /\ [][MemNext]_vars

Init == OrchConfig /\ OrchInit /\ RestIdle

Spec == Init /\ [][Next]_vars

BaseIdle == ArgIdle /\ MemIdle /\ OrchIdle

InitMtimes == MtInit /\ BaseIdle /\ CacheIdle /\ PruneIdle /\ CleanIdle /\ FnIdle

SpecMtimes == InitMtimes /\ [][MtNext]_vars

InitCache == CacheInit /\ BaseIdle /\ MtIdle /\ PruneIdle /\ CleanIdle /\ FnIdle

SpecCache == InitCache /\ [][CacheNext]_vars

InitPrune == PruneInit /\ BaseIdle /\ MtIdle /\ CacheIdle /\ CleanIdle /\ FnIdle

SpecPrune == InitPrune /\ [][PruneNext]_vars

InitClean == CleanInit /\ BaseIdle /\ MtIdle /\ CacheIdle /\ PruneIdle /\ FnIdle

SpecClean == InitClean /\ [][CleanNext]_vars

InitFn == FnInit /\ BaseIdle /\ MtIdle /\ CacheIdle /\ PruneIdle /\ CleanIdle

SpecFn == InitFn /\ [][FnNext]_vars

(***************************************************************************)
(* Claims about the argument builder, checked under SpecArgs.              *)
(***************************************************************************)
\* the words of a result that are a --path flag, in either form
PathWords(val) ==
    {i \in 1..Len(val) : val[i] = <<"--path">> \/ (val[i] # <<>> /\ val[i][1] = "--path=")}

TargetWords(val) ==
    {i \in 1..Len(val) : val[i] = <<"--target">> \/ (val[i] # <<>> /\ val[i][1] = "--target=")}

\* C1: whatever string parses, the words FilterInstallArgs returns hold no
\* --root or --color, neither as a word of its own nor in the =value form.
C1_FilterDropsRootAndColor ==
    (argOp = "FilterInstallArgs" /\ ~argOut.err) =>
        \A i \in 1..Len(argOut.val) :
            /\ argOut.val[i] \notin { <<"--root">>, <<"--color">> }
            /\ argOut.val[i] # <<>> => argOut.val[i][1] \notin {"--root=", "--color="}

\* C1 witness: --root in both forms and twice in the space form, filtered
C1_Witness ==
    /\ argOp = "FilterInstallArgs"
    /\ argStr = <<"--root=", "x", " ", "--root", " ", "x", " ", "-v">>
    /\ argOut = [err |-> FALSE, val |-> << <<"-v">> >>]

\* C2 as stated: --color=never and --root=<outputRoot> are the last two
\* words of every argument vector BuildArgs produces.
C2_Original_ColorRootLast ==
    (argOp = "BuildArgs" /\ ~argOut.err) =>
        /\ Len(argOut.val) >= 3
        /\ argOut.val[Len(argOut.val) - 1] = <<"--color=", "never">>
        /\ argOut.val[Len(argOut.val)] = <<"--root=">> \o DestLayerPath

\* C2 amended: the vector is install, the filtered user words, --color=never,
\* --root=<outputRoot>, then the default --path=<defaultPath> when the user
\* gave no --path, then the default --target on the tiny stack when the user
\* gave no --target: the orchestrator's --color and --root follow every user
\* word and precede the default path.
C2_BuildArgsShape ==
    (argOp = "BuildArgs" /\ ~argOut.err) =>
        LET user == FilterInstallArgs(argStr).val
            n == Len(user)
            defPath == IF PathWords(user) = {}
                       THEN << <<"--path=">> \o argDefault >> ELSE <<>>
            defTarget == IF argStack = TinyStackID /\ TargetWords(user) = {}
                         THEN << <<"--target=", "x86_64-unknown-linux-musl">> >>
                         ELSE <<>>
        IN  argOut.val = <<(<<"install">>)>> \o user
                            \o << <<"--color=", "never">>, <<"--root=">> \o DestLayerPath >>
                            \o defPath \o defTarget

\* C2 witness: a user word, no user --path: the default path comes last
C2_Witness ==
    /\ argOp = "BuildArgs"
    /\ argStr = <<"--locked">>
    /\ argStack # TinyStackID
    /\ argOut.val = << <<"install">>, <<"--locked">>, <<"--color=", "never">>,
                       <<"--root=">> \o DestLayerPath, <<"--path=">> \o argDefault >>

\* C3 as stated: every vector BuildArgs produces holds exactly one --path word.
C3_Original_ExactlyOnePath ==
    (argOp = "BuildArgs" /\ ~argOut.err) => Cardinality(PathWords(argOut.val)) = 1

\* C3 amended: every vector holds at least one --path word: the default one
\* alone when the filtered user words hold none, and otherwise exactly the
\* user's own --path words, however many they are.
C3_AtLeastOnePath ==
    (argOp = "BuildArgs" /\ ~argOut.err) =>
        LET user == FilterInstallArgs(argStr).val
            k == Cardinality(PathWords(user))
            out == PathWords(argOut.val)
        IN  /\ Cardinality(out) = (IF k = 0 THEN 1 ELSE k)
            /\ k = 0 => \A i \in out : argOut.val[i] = <<"--path=">> \o argDefault
            /\ k > 0 => out = {i + 1 : i \in PathWords(user)}

\* C3 witness: the user gave --path in both forms and both are kept
C3_Witness ==
    /\ argOp = "BuildArgs"
    /\ argStr = <<"--path=", "x", " ", "--color", " ", "x", " ", "--path", " ", "x">>
    /\ Cardinality(PathWords(argOut.val)) = 2

\* C4: AddDefaultPath returns its input unchanged when a word of it is --path
\* or starts with --path=, wherever it stands, and otherwise the input with
\* the one word --path=<defaultMemberPath> appended.
C4_AddDefaultPath ==
    argOp = "AddDefaultPath" =>
        IF PathWords(argIn) # {}
        THEN argOut.val = argIn
        ELSE /\ Len(argOut.val) = Len(argIn) + 1
             /\ SubSeq(argOut.val, 1, Len(argIn)) = argIn
             /\ argOut.val[Len(argOut.val)] = <<"--path=">> \o argDefault

\* C4 witness: a space-form --path that is not the first word, input unchanged
C4_Witness ==
    /\ argOp = "AddDefaultPath"
    /\ Len(argIn) >= 2
    /\ argIn[Len(argIn)] = <<"--path">>
    /\ argIn[1] = <<"x">>
    /\ argOut.val = argIn

(***************************************************************************)
(* Claims about the workspace resolver, checked under SpecMembers.         *)
(***************************************************************************)
\* the package a member string was printed for
PackageOf(member) == CHOOSE pkg \in MemberPackages : MemberID(pkg) = member

\* the names a filter string lists: its comma-separated entries, trimmed
FilterNames(filter) ==
    {TrimSpace(Split(filter, ",")[i]) : i \in 1..Len(Split(filter, ","))}

\* the positions of the metadata's members a filter string keeps
KeptMembers(workspaceMembers, filter) ==
    {i \in 1..Len(workspaceMembers) :
        filter = <<>> \/ PackageOf(workspaceMembers[i]).name \in FilterNames(filter)}

\* the i-th smallest element of a set of numbers
RECURSIVE Nth(_, _)
Nth(S, i) ==
    LET m == CHOOSE x \in S : \A y \in S : x <= y
    IN  IF i = 1 THEN m ELSE Nth(S \ {m}, i - 1)

\* C5: WorkspaceMembers returns one entry per member of the metadata that
\* the filter keeps (every member with an empty filter), in the metadata's
\* order, each the location of that member; a filter that keeps nothing
\* gives the empty list and no error.
C5_MembersFilteredInOrder ==
    memOp = "WorkspaceMembers" =>
        LET kept == KeptMembers(mdMembers, memFilter)
        IN  /\ memOut.kind = "ok"
            /\ Len(memOut.val) = Cardinality(kept)
            /\ \A i \in 1..Len(memOut.val) :
                  /\ memOut.val[i].Scheme = "path+file"
                  /\ memOut.val[i].Path = PackageOf(mdMembers[Nth(kept, i)]).dir

\* C5 on the member strings of the "<name> <version> (<uri>)" form alone
C5_SpacedMembersFilteredInOrder ==
    (memOp = "WorkspaceMembers"
        /\ \A i \in 1..Len(mdMembers) : PackageOf(mdMembers[i]).id = "spaced")
    => C5_MembersFilteredInOrder

(***************************************************************************)
(* Claims about the build orchestrator, checked under Spec.                *)
(***************************************************************************)
\* the errors of the steps that follow the last install and its prune
LaterErrors == {"unable to create SBoM", "unable to preserve all", "cleanup"}

\* every install of the plan has run and been pruned
InstallsOver ==
    \/ pc \in {"sbom", "preserve", "record", "cleanup", "done"}
    \/ pc = "failed" /\ err \in LaterErrors

\* the words BP_CARGO_INSTALL_ARGS is made of, before any filtering
UserWords == Parse(argStr).val

\* the user's words after the --root/--color filter
FilteredWords == FilterInstallArgs(argStr).val

HasWord(args, word) == \E i \in 1..Len(args) : args[i] = word

\* C6 as stated, on arguments that parse: with zero members the build fails
\* only if its one invocation fails.
C6_Original_FailsOnlyIfInvocationFails ==
    (resolved /\ members = <<>> /\ ~Parse(argStr).err /\ pc = "failed") =>
        (Len(invocations) = 1 /\ ~invocations[1].ok)

\* C6 amended: with zero members and arguments that parse, a warning is
\* logged and exactly one invocation is made, for the whole project with the
\* default path "."; the build fails if that invocation fails, and after it
\* succeeded fails only if a later step (prune, SBOM scan, snapshot, source
\* cleanup) fails.
C6_ZeroMembersOneInvocation ==
    (resolved /\ members = <<>> /\ ~Parse(argStr).err /\ pc # "decide") =>
        /\ HasWord(steps, "warn")
        /\ Len(invocations) <= 1
        /\ pc # "install" => Len(invocations) = 1
        /\ \A i \in 1..Len(invocations) :
              /\ invocations[i].member = <<".">>
              /\ invocations[i].dir = ProjectRoot
              /\ PathWords(FilteredWords) = {} => HasWord(invocations[i].args, <<"--path=", ".">>)
              /\ ~invocations[i].ok => (pc = "failed" /\ err = "unable to build")
              /\ (invocations[i].ok /\ pc = "failed") =>
                    err \in LaterErrors \cup {"unable to cleanup"}
        /\ pc = "done" => invocations[1].ok

\* C6 witness: members in the metadata, a filter that keeps none of them,
\* one successful invocation with --path=. and the build done
C6_Witness ==
    /\ pc = "done"
    /\ resolved
    /\ Len(mdMembers) = 2
    /\ members = <<>>
    /\ HasWord(steps, "warn")
    /\ Len(invocations) = 1
    /\ invocations[1].ok
    /\ HasWord(invocations[1].args, <<"--path=", ".">>)

\* C7: with more than one member and no --path among the user's words, the
\* invocations are made one per member in the resolver's order, each started
\* only after the one before it succeeded, each in the project root with
\* --path=<that member's path> as its only --path and the same
\* --root=<output layer>; once the installs are over there are exactly as
\* many invocations as members.
C7_OneInvocationPerMember ==
    (resolved /\ Len(members) > 1 /\ ~IsPathSet(argStr).err /\ ~IsPathSet(argStr).val) =>
        /\ Len(invocations) <= Len(members)
        /\ \A i \in 1..Len(invocations) :
              /\ invocations[i].member = members[i].Path
              /\ invocations[i].dir = ProjectRoot
              /\ HasWord(invocations[i].args, <<"--path=">> \o members[i].Path)
              /\ Cardinality(PathWords(invocations[i].args)) = 1
              /\ HasWord(invocations[i].args, <<"--root=">> \o DestLayerPath)
              /\ i < Len(invocations) => invocations[i].ok
        /\ InstallsOver => Len(invocations) = Len(members)

\* C7 witness: three members, three invocations, the build done
C7_Witness ==
    /\ pc = "done"
    /\ resolved
    /\ Len(members) = 3
    /\ Len(invocations) = 3
    /\ ~IsPathSet(argStr).val
    /\ invocations[3].member = members[3].Path

\* C8 as stated: with at least one member and a --path word among the
\* user's words, exactly one invocation is made.
C8_Original_UserPathOneInvocation ==
    (resolved /\ Len(members) >= 1 /\ ~Parse(argStr).err
        /\ PathWords(UserWords) # {} /\ InstallsOver)
    => Len(invocations) = 1

\* C8 amended: with at least one member, and either one member alone that is
\* at the project root or a --path word among the user's words that the
\* --root/--color filter leaves in place, exactly one invocation is made,
\* for the whole project; in the second case its --path words are the
\* user's and none is added.
C8_SinglePlanOneInvocation ==
    (resolved /\ Len(members) >= 1 /\ ~IsPathSet(argStr).err
        /\ ((Len(members) = 1 /\ members[1].Path = ProjectRoot) \/ PathWords(FilteredWords) # {})
        /\ pc # "decide")
    =>  /\ Len(invocations) <= 1
        /\ pc # "install" => Len(invocations) = 1
        /\ \A i \in 1..Len(invocations) :
              /\ invocations[i].member = <<".">>
              /\ invocations[i].dir = ProjectRoot
              /\ PathWords(FilteredWords) # {} =>
                    /\ PathWords(invocations[i].args) = {j + 1 : j \in PathWords(FilteredWords)}
                    /\ \A j \in PathWords(FilteredWords) :
                          invocations[i].args[j + 1] = FilteredWords[j]

\* C8 witness: three members, a user --path in the space form, one invocation
C8_Witness ==
    /\ pc = "done"
    /\ resolved
    /\ Len(members) = 3
    /\ argStr = <<"--locked", " ", "--path", " ", "x">>
    /\ Len(invocations) = 1
    /\ HasWord(invocations[1].args, <<"--path">>)

\* C9: an invocation that failed is the last one made and the only one for
\* its member, the build has ended with the error of that invocation, no
\* snapshot has been written, the source cleanup has not run and the
\* project's files are all still there.
C9_FailedInvocationAborts ==
    \A i \in 1..Len(invocations) :
        ~invocations[i].ok =>
            /\ i = Len(invocations)
            /\ \A j \in 1..Len(invocations) :
                  j # i => invocations[j].member # invocations[i].member
            /\ pc = "failed"
            /\ err = "unable to build"
            /\ ~HasWord(steps, "preserve")
            /\ \A r \in DOMAIN manifest : manifest[r] \notin {"new", "partial"}
            /\ ~HasWord(steps, "cleanup")
            /\ appFiles = SourceFiles
            /\ layerMetadata = prevMetadata

\* C9 witness: the second of three members fails to build
C9_Witness ==
    /\ pc = "failed"
    /\ Len(plan) = 3
    /\ Len(invocations) = 2
    /\ invocations[1].ok
    /\ ~invocations[2].ok

\* the steps of a build that a reused layer goes without
BuildSteps == {"reset layer", "restore", "metadata", "warn", "install", "prune", "sbom", "preserve"}

MtEntries == {q \in MtPathSet : mtKind[q] # "none"}

\* Preserve and then Restore have both returned without error, and every
\* os.Chtimes of the Restore succeeded
RoundTripDone == mtPc = "restored" /\ mtSaved # <<>> /\ mtLog = <<>>

\* C11: after Preserve(root) and then Restore(root), every entry under root
\* (the root, every directory, every file, the manifest) has the
\* modification time it had when Preserve finished, whatever was done to
\* modification times in between.
C11_RoundTrip ==
    RoundTripDone => \A q \in MtEntries : mtMtime[q] = mtSaved[q]

\* C11 on the entries other than the manifest, in a tree without a
\* symbolic link
C11_RoundTripPlainEntries ==
    (RoundTripDone /\ mtKind["r/z"] # "link") =>
        \A q \in MtEntries \ {MtManifest} : mtMtime[q] = mtSaved[q]

\* C11 on the manifest itself, in a tree without a symbolic link
C11_RoundTripManifest ==
    (RoundTripDone /\ mtKind["r/z"] # "link") => mtMtime[MtManifest] = mtSaved[MtManifest]

\* C11 in a tree with a symbolic link, on the entries other than the manifest
C11_RoundTripLinkedEntries ==
    (RoundTripDone /\ mtKind["r/z"] = "link") =>
        \A q \in MtEntries \ {MtManifest} : mtMtime[q] = mtSaved[q]

\* C12: Restore on a root without mtimes.json returns no error and leaves
\* the modification time and the access time of every entry as they were.
C12_RestoreWithoutManifest ==
    (mtBefore # <<>> /\ mtKind[MtManifest] = "none") =>
        /\ mtPc = "restored"
        /\ mtErr = ""
        /\ mtMtime = mtBefore.m
        /\ mtAtime = mtBefore.a
        /\ mtLog = <<NotRestored>>

\* C12 witness: Restore has returned on a tree with a link and no manifest
C12_Witness ==
    /\ mtPc = "restored"
    /\ mtOps = <<"Restore">>
    /\ mtKind[MtManifest] = "none"
    /\ mtKind["r/z"] = "link"

\* the records of the manifest that os.Chtimes failed on
FailedRecords == {i \in 1..Len(mtRecords) : \E k \in 1..Len(mtLog) : mtLog[k] = mtRecords[i].Path}

\* the entry record i sets the time of
RecordTarget(i) == ChtimesTarget(mtKind, mtLinkTo, mtRecords[i].Path)

\* C13: a Restore that read its manifest has gone through every record and
\* returned no error, whichever os.Chtimes failed; each failure is logged,
\* and every record that did not fail itself has been applied: its entry has
\* the recorded time (or that of a later record for the same entry).
C13_ChtimesFailureSkipped ==
    (mtBefore # <<>> /\ mtPc = "restored" /\ mtKind[MtManifest] # "none") =>
        /\ mtErr = ""
        /\ mtIdx = Len(mtRecords) + 1
        /\ Len(mtLog) = Cardinality(FailedRecords)
        /\ \A i \in (1..Len(mtRecords)) \ FailedRecords :
              \E j \in i..Len(mtRecords) :
                 /\ j \notin FailedRecords
                 /\ RecordTarget(j) = RecordTarget(i)
                 /\ mtMtime[RecordTarget(i)] = mtRecords[j].MTime.instant

\* C13 witness: os.Chtimes failed on an entry that exists, and a record
\* after it has set a time that had been changed
C13_Witness ==
    /\ mtPc = "restored"
    /\ mtLog = <<"r/a">>
    /\ mtBefore.m["r/d/f"] # mtSaved["r/d/f"]
    /\ mtMtime["r/d/f"] = mtSaved["r/d/f"]

C15_TargetLinkedToCache ==
    /\ cLayer0 \subseteq cLayer.content
    /\ (cCalls >= 1 /\ cErr = "") =>
          /\ cTarget = [kind |-> "link", to |-> CachePath, content |-> {}]
          /\ cLayer.exists
          /\ cLayer.Cache
          /\ cLayer.content = cLayer0

\* C15 witness: the third call in a row has succeeded on a layer with content
C15_Witness ==
    /\ cCalls = 3
    /\ cErr = ""
    /\ cTarget.kind = "link"
    /\ cLayer.content = {"debug", "CACHEDIR.TAG", "mtimes.json"}

(***************************************************************************)
(* Claims about CleanCargoHomeCache, checked under SpecPrune.              *)
(***************************************************************************)
\* the entries of a level that are there
Children(kind, dir, names) ==
    {names[i] : i \in {j \in 1..Len(names) : kind[dir \o <<names[j]>>] # "none"}}

\* the directories the prune is to keep: bin, registry, git, registry/index,
\* registry/cache, git/db, with everything under bin and under the last three
KeptPaths(kind) ==
    {q \in PhPaths :
        /\ kind[q] # "none"
        /\ kind[<<q[1]>>] = "dir" /\ q[1] \in KeepTop
        /\ (Len(q) >= 2 /\ q[1] = "registry") =>
              (kind[<<q[1], q[2]>>] = "dir" /\ q[2] \in KeepRegistry)
        /\ (Len(q) >= 2 /\ q[1] = "git") =>
              (kind[<<q[1], q[2]>>] = "dir" /\ q[2] \in KeepGit)}

\* C16: after CleanCargoHomeCache returned no error, the top level holds at
\* most the directories bin, registry and git, registry at most the
\* directories index and cache, git at most the directory db; every other
\* entry of the three levels is gone, every kept directory that was there
\* is still there with what was under it, and nothing has been added; a
\* cache home, registry or git that is missing is no error.
C16_PruneKeepsOnlyCacheDirs ==
    /\ (phPc = "done") =>
          /\ phErr = ""
          /\ Children(phKind, <<>>, PhTop) \subseteq KeepTop
          /\ Children(phKind, <<"registry">>, PhRegistry) \subseteq KeepRegistry
          /\ Children(phKind, <<"git">>, PhGit) \subseteq KeepGit
          /\ \A q \in PhPaths : (Len(q) <= 2 /\ q \notin PhDeep /\ phKind[q] # "none")
                                   => phKind[q] = "dir"
          /\ \A q \in PhPaths : phKind[q] = (IF q \in KeptPaths(phKind0) THEN phKind0[q] ELSE "none")
    /\ (phPc = "failed" /\ phErr = "unable to read directory") =>
          (phHome /\ (phKind # phKind0 => phKind[<<"registry">>] = "dir" \/ phKind[<<"git">>] = "dir"))

\* C16 witness: the tree of the test (bin, registry/{index,cache,foo},
\* git/{db,bar}, baz) with a stray file, pruned
C16_Witness ==
    /\ phPc = "done"
    /\ phKind0[<<"baz">>] = "dir"
    /\ phKind0[<<"mtimes.json">>] = "file"
    /\ phKind0[<<"registry", "foo">>] = "dir"
    /\ phKind0[<<"git", "bar">>] = "dir"
    /\ Children(phKind, <<>>, PhTop) = KeepTop
    /\ Children(phKind, <<"registry">>, PhRegistry) = KeepRegistry
    /\ Children(phKind, <<"git">>, PhGit) = KeepGit
    /\ phKind[<<"registry", "index", "i">>] = "file"

(***************************************************************************)
(* Claims about the source cleanup, checked under SpecClean.               *)
(***************************************************************************)
\* the entries under <layer>/bin that are not directories
LayerFiles == {q \in BinPaths : clLayerBin[q] = "file"}

LayerEntries == {q \in BinPaths : clLayerBin[q] # "none"}

\* C17 as stated: after a successful Contribute the project directory holds
\* only the kept names and bin, every other entry is gone, every file under
\* <layer>/bin has a symbolic link at the same relative path under
\* <project>/bin, and that bin directory was made by the cleanup.
C17_Original_FreshBin ==
    (clPc = "done") =>
        /\ \A n \in ClNames : clTop[n] # "none" => n \in clExclude \cup {"bin"}
        /\ \A q \in LayerFiles : clBin[q] = "link"
        /\ clFresh

\* C17: after a successful Contribute every name of the project directory
\* that is not kept and is not bin is gone and every kept name is as it
\* was; bin is a directory; every file under <layer>/bin has a symbolic
\* link and every directory a directory at the same relative path under
\* <project>/bin.  That bin directory is made by the cleanup and holds
\* nothing else, unless the keep-list names bin and the project had a bin
\* directory: then it is that directory, with what it held before.
C17_CleanupResult ==
    (clPc = "done") =>
        /\ clErr = ""
        /\ \A n \in ClNames \ {"bin"} :
              clTop[n] = IF n \in clExclude THEN clTop0[n] ELSE "none"
        /\ clTop["bin"] = "dir"
        /\ \A q \in LayerFiles : clBin[q] = "link"
        /\ \A q \in LayerEntries \ LayerFiles : clBin[q] = "dir"
        /\ IF "bin" \in clExclude /\ clTop0["bin"] = "dir"
           THEN /\ ~clFresh
                /\ \A q \in BinPaths \ LayerEntries : clBin[q] = clBin0[q]
           ELSE /\ clFresh
                /\ \A q \in BinPaths \ LayerEntries : clBin[q] = "none"

\* a cleanup that succeeded where static and a bin directory with a file of
\* its own were kept, target was a link and the layer holds a binary
C17_Witness ==
    /\ clPc = "done"
    /\ clTop0["target"] = "link"
    /\ clTop0["static"] = "dir"
    /\ clExclude = {"static", "bin"}
    /\ clTop0["bin"] = "dir"
    /\ clBin0[<<"old">>] = "file"
    /\ clLayerBin[<<"app">>] = "file"
    /\ clLayerBin[<<"sub", "tool">>] = "file"

(***************************************************************************)
(* Claims about Detect, checked under SpecFn.                              *)
(***************************************************************************)
\* C18 as stated: Detect passes exactly when both files exist, and when
\* either is missing it does not pass, gives no plan and returns no error.
C18_Original_MissingIsNoError ==
    (fnOut.fn = "Detect") =>
        /\ fnOut.Pass <=> (fnIn.toml = "ok" /\ fnIn.lock = "ok")
        /\ (fnIn.toml = "notexist" \/ fnIn.lock = "notexist") =>
              (~fnOut.Pass /\ fnOut.Plans = <<>> /\ fnOut.err = "")

\* C18: Detect passes, with its one plan and no error, exactly when both
\* Cargo.toml and Cargo.lock are found; it does not pass and gives no plan
\* otherwise; it returns no error when Cargo.toml is missing, or is found
\* and Cargo.lock is missing, and it returns an error when looking for
\* Cargo.toml, or for Cargo.lock once Cargo.toml is found, fails otherwise.
C18_DetectResult ==
    (fnOut.fn = "Detect") =>
        /\ fnOut.Pass <=> (fnIn.toml = "ok" /\ fnIn.lock = "ok")
        /\ fnOut.Pass => (fnOut.Plans = DetectPlans /\ fnOut.err = "")
        /\ ~fnOut.Pass => fnOut.Plans = <<>>
        /\ (fnOut.err = "") <=>
              (fnIn.toml = "notexist" \/ (fnIn.toml = "ok" /\ fnIn.lock # "error"))

\* Detect has answered for a project with Cargo.toml and without Cargo.lock
C18_Witness ==
    /\ fnOut.fn = "Detect"
    /\ fnIn.toml = "ok"
    /\ fnIn.lock = "notexist"
    /\ ~fnOut.Pass

(***************************************************************************)
(* Claims about BuildProcessTypes, checked under SpecFn.                   *)
(***************************************************************************)
\* the indexes of the processes marked as the default
Defaults(procs) == {i \in 1..Len(procs) : procs[i].Default}

\* the indexes of the processes of type web
Webs(procs) == {i \in 1..Len(procs) : procs[i].Type = "web"}

\* C19: BuildProcessTypes returns one process per target name, in target
\* order, with Type the name and Direct true; of a non-empty list exactly
\* one process is the default, the first of type web if there is one and
\* the first process otherwise; with tini the command is tini and the
\* arguments are -g, --, <project>/bin/<target>; without it the command is
\* <project>/bin/<target> and there are no arguments.
C19_ProcessTypes ==
    (fnOut.fn = "BuildProcessTypes" /\ ~fnIn.binaryTargets.err) =>
        LET targets == fnIn.binaryTargets.val
            procs == fnOut.procs
        IN  /\ fnOut.err = ""
            /\ Len(procs) = Len(targets)
            /\ \A i \in 1..Len(procs) :
                  /\ procs[i].Type = targets[i]
                  /\ procs[i].Direct
                  /\ IF fnIn.tiniEnabled
                     THEN /\ procs[i].Command = <<"tini">>
                          /\ procs[i].Arguments =
                                <<"-g", "--", <<"/workspace", "/bin/", targets[i]>> >>
                     ELSE /\ procs[i].Command = <<"/workspace", "/bin/", targets[i]>>
                          /\ procs[i].Arguments = <<>>
            /\ targets # <<>> =>
                  /\ Cardinality(Defaults(procs)) = 1
                  /\ \A d \in Defaults(procs) :
                        IF Webs(procs) # {}
                        THEN d \in Webs(procs) /\ \A w \in Webs(procs) : d <= w
                        ELSE d = 1
            /\ targets = <<>> => procs = <<>>

\* the processes of three targets with tini, the second and third being web
C19_Witness ==
    /\ fnOut.fn = "BuildProcessTypes"
    /\ fnIn.tiniEnabled
    /\ fnIn.binaryTargets.val = <<"app", "web", "web">>
    /\ Defaults(fnOut.procs) = {2}

(***************************************************************************)
(* Claims about ProjectTargets, checked under SpecFn.                      *)
(***************************************************************************)
\* whether the file srcPath lies in the directory srcDir or below it
LiesUnder(srcPath, srcDir) == HasPrefix(srcPath, srcDir \o <<"/">>)

\* whether one of the kinds of a target is bin
IsBin(target) == \E k \in 1..Len(target.Kind) : target.Kind[k] = "bin"

\* the names of the targets of pkg that are binaries with their source
\* below the directory srcDir, in target order
BinTargetsBelow(pkg, srcDir) ==
    LET ts == SelectSeq(pkg.Targets,
                  LAMBDA t : IsBin(t) /\ LiesUnder(t.SrcPath, srcDir))
    IN  [i \in 1..Len(ts) |-> ts[i].Name]

\* the packages of the metadata whose id is the member string
PackagesOf(m, workspace) == SelectSeq(m.Packages, LAMBDA p : p.ID = workspace)

\* the member strings of the metadata that the filter retains
RetainedMembers(m, filter) ==
    SelectSeq(m.WorkspaceMembers, LAMBDA w : Retained(w, makeFilterMap(filter)))

\* C20: ProjectTargets returns, for each retained workspace member in
\* member order, the names of the targets of that member's package, in
\* target order, that are of kind bin and whose src_path lies under the
\* project directory, and nothing else.
C20_ProjectTargets ==
    (fnOut.fn = "ProjectTargets" /\ ~fnIn.m.err) =>
        LET ws == RetainedMembers(fnIn.m, fnIn.filter)
        IN  fnOut.names =
                Flatten([w \in 1..Len(ws) |->
                    LET ps == PackagesOf(fnIn.m, ws[w])
                    IN  Flatten([p \in 1..Len(ps) |-> BinTargetsBelow(ps[p], ProjectRoot)])])

\* the part of C20 about what never appears: every name of the result is
\* the name of a target of kind bin, of the package of a retained member,
\* whose source lies under the project directory
C20_NoTargetOutsideProject ==
    (fnOut.fn = "ProjectTargets" /\ ~fnIn.m.err) =>
        \A i \in 1..Len(fnOut.names) :
            \E p \in 1..Len(fnIn.m.Packages) :
                /\ \E w \in 1..Len(RetainedMembers(fnIn.m, fnIn.filter)) :
                      RetainedMembers(fnIn.m, fnIn.filter)[w] = fnIn.m.Packages[p].ID
                /\ \E t \in 1..Len(fnIn.m.Packages[p].Targets) :
                      /\ fnIn.m.Packages[p].Targets[t].Name = fnOut.names[i]
                      /\ IsBin(fnIn.m.Packages[p].Targets[t])
                      /\ LiesUnder(fnIn.m.Packages[p].Targets[t].SrcPath, ProjectRoot)

\* the part of C20 about the order: where the metadata lists the two
\* packages in the other order than the two members, the name of the first
\* member's binary comes first
C20_MemberOrder ==
    (/\ fnOut.fn = "ProjectTargets"
     /\ ~fnIn.m.err
     /\ fnIn.filter = <<>>
     /\ Len(fnIn.m.WorkspaceMembers) = 2
     /\ fnIn.m.Packages[1].ID = fnIn.m.WorkspaceMembers[2]
     /\ fnIn.m.Packages[1].Targets = <<CHOOSE t \in MetaTargets : t.Name = "web">>
     /\ fnIn.m.Packages[2].Targets = <<CHOOSE t \in MetaTargets : t.Name = "worker">>)
        => fnOut.names = <<"worker", "web">>

(***************************************************************************)
(* Claims about the order of the steps of a build, checked under Spec.     *)
(***************************************************************************)
\* the places of a step in the steps taken so far
Positions(word) == {i \in 1..Len(steps) : steps[i] = word}

\* every a among the steps comes before every b
Before(a, b) == \A i \in Positions(a), j \in Positions(b) : i < j

\* C21: in a build that was not skipped and did not fail the steps are, in
\* this order: the restore of the three roots, the metadata query, one
\* install per entry of the plan, the SBOM scan if there is one, the
\* snapshot of the same three roots, the source cleanup; at any time, an
\* install has run only after the restore of all the roots, and a snapshot
\* has been started only after every install of the plan has succeeded.
C21_StepOrder ==
    /\ (pc = "done" /\ HasWord(steps, "reset layer")) =>
          /\ \A w \in {"restore", "metadata", "preserve", "cleanup"} :
                Cardinality(Positions(w)) = 1
          /\ Cardinality(Positions("sbom")) <= 1
          /\ Cardinality(Positions("install")) = Len(plan)
          /\ Len(plan) >= 1
          /\ Before("restore", "metadata")
          /\ Before("metadata", "install")
          /\ Before("install", "sbom")
          /\ Before("install", "preserve")
          /\ Before("sbom", "preserve")
          /\ Before("preserve", "cleanup")
          /\ restored = Roots
          /\ preserved = restored
    /\ (HasWord(steps, "metadata") \/ invocations # <<>>) =>
          (restored = Roots /\ HasWord(steps, "restore") /\ Before("restore", "install"))
    /\ (HasWord(steps, "preserve") \/ preserved # <<>>) =>
          /\ Len(invocations) = Len(plan)
          /\ Len(plan) >= 1
          /\ \A i \in 1..Len(invocations) : invocations[i].ok
          /\ Before("install", "preserve")

\* a build of two members with an SBOM scan that has ended well
C21_Witness ==
    /\ pc = "done"
    /\ HasWord(steps, "reset layer")
    /\ Len(plan) = 2
    /\ HasWord(steps, "sbom")
    /\ preserved = Roots

\* the number of invocations so far that succeeded
Succeeded == Cardinality({i \in 1..Len(invocations) : invocations[i].ok})

\* C22: the step after an install is a prune and nothing else, and it
\* follows only an invocation that succeeded, so the prune for a member is
\* over before the next member's invocation starts; an invocation that
\* failed is the last step of the build; a prune that failed is the last
\* step of the build too, whatever the number of members still to install.
C22_PruneAfterEachInstall ==
    /\ Cardinality(Positions("install")) = Len(invocations)
    /\ \A i \in 1..(Len(steps) - 1) : steps[i] = "install" => steps[i + 1] = "prune"
    /\ \A i \in 2..Len(steps) : steps[i] = "prune" => steps[i - 1] = "install"
    /\ Cardinality(Positions("prune")) = (IF pc = "prune" THEN Succeeded - 1 ELSE Succeeded)
    /\ \A k \in 1..Len(invocations) :
          ~invocations[k].ok =>
              /\ k = Len(invocations)
              /\ pc = "failed"
              /\ err = "unable to build"
              /\ steps[Len(steps)] = "install"
    /\ err = "unable to cleanup" =>
          /\ pc = "failed"
          /\ steps[Len(steps)] = "prune"
          /\ Len(invocations) = idx
    /\ pc = "prune" => invocations[Len(invocations)].ok

\* the prune after the first of two members failed and the build is over
C22_Witness ==
    /\ pc = "failed"
    /\ err = "unable to cleanup"
    /\ Len(plan) = 2
    /\ Len(invocations) = 1
    /\ invocations[1].ok

(***************************************************************************)
(* Claims about a failed snapshot, checked under SpecMtimes.               *)
(***************************************************************************)
\* C23: when Preserve has failed during the walk, the manifest is not left
\* holding only the records written before the failure: there is no
\* manifest, or it holds no record, or it holds a record of every entry.
C23_NoPartialManifest ==
    (mtPc = "failed" /\ mtErr = "unable to recurse folder") =>
        \/ mtKind[MtManifest] = "none"
        \/ mtRecords = <<>>
        \/ Len(mtRecords) = Len(WalkOrder(mtKind))

(***************************************************************************)
(* Claims about a malformed argument string, checked under Spec.           *)
(***************************************************************************)
\* the steps that run a subprocess
SubprocessSteps == {"cargo version", "rustc version", "metadata", "install"}

\* C24: when the build has failed because the install arguments do not
\* parse, no subprocess has been run: no version query, no metadata query,
\* no install.
C24_ParseErrorBeforeSubprocess ==
    (pc = "failed" /\ err = "unable to check if path set") =>
        /\ Parse(argStr).err
        /\ \A i \in 1..Len(steps) : steps[i] \notin SubprocessSteps
        /\ invocations = <<>>

\* the part of C24 about the failure itself: a build whose install
\* arguments do not parse does not end well
C24_MalformedNeverDone == Parse(argStr).err => pc # "done"

(***************************************************************************)
(* Claims about the environment of the build, checked under Spec.          *)
(***************************************************************************)
\* PATH in the environment of the process when the build starts
PathBefore == << <<"/usr/bin">> >>

\* C25: whatever the number of InstallMember calls made and however they
\* ended, PATH in the environment of the process is what it was before.
C25_EnvironmentUnchanged == envPath = PathBefore

(***************************************************************************)
(* Claims about the word after a flag, checked under SpecArgs.             *)
(***************************************************************************)
\* word i is the one word after a space-form --root or --color that was
\* not itself such a word
RECURSIVE Consumed(_, _)
Consumed(words, i) ==
    /\ i > 1
    /\ words[i - 1] \in { <<"--root">>, <<"--color">> }
    /\ ~Consumed(words, i - 1)

\* the places of the words that stay
Staying(words) ==
    {i \in 1..Len(words) :
        /\ ~Consumed(words, i)
        /\ words[i] \notin { <<"--root">>, <<"--color">> }
        /\ ~(words[i] # <<>> /\ words[i][1] \in {"--root=", "--color="})}

\* C26: of the words of a string that parses, FilterInstallArgs removes a
\* space-form --root or --color with the one word after it, whatever that
\* word is, and the equals-form --root=... and --color=... words; it keeps
\* every other word, in the order of the input, and returns no error, also
\* when a space-form flag is the last word.
C26_FlagConsumesNextWord ==
    (argOp = "FilterInstallArgs" /\ ~Parse(argStr).err) =>
        /\ ~argOut.err
        /\ Len(argOut.val) = Cardinality(Staying(UserWords))
        /\ \A k \in 1..Len(argOut.val) : argOut.val[k] = UserWords[Nth(Staying(UserWords), k)]

\* a second --root taken as the value of the first, and --color as the
\* last word
C26_Witness ==
    /\ argOp = "FilterInstallArgs"
    /\ argStr = <<"-v", " ", "--root", " ", "--root", " ", "x", " ", "--color">>
    /\ argOut = [err |-> FALSE, val |-> << <<"-v">>, <<"x">> >>]

(***************************************************************************)
(* Claims about member strings of any shape, checked under SpecMembers.    *)
(***************************************************************************)
\* C27: whatever the member strings of the metadata, WorkspaceMembers ends
\* with a list of locations or with an error value, never with a crash.
C27_ResolverNeverCrashes ==
    (memOp = "WorkspaceMembers") => memOut.kind \in {"ok", "error"}

\* the part of C27 about a URI with spaces: a retained member string of the
\* shape <name> <version> (<uri>) is split at its first two spaces only,
\* and the location returned for it is its whole URI
C27_UriWithSpaces ==
    (memOp = "WorkspaceMembers" /\ memOut.kind = "ok" /\ memFilter = <<>>) =>
        \A i \in 1..Len(mdMembers) :
            mdMembers[i] = MemberID(CHOOSE pkg \in MemberPackages : pkg.name = <<"c">>) =>
                memOut.val[i].Path = <<"/workspace", "/my", " ", "c">>

(***************************************************************************)
(* Claims about the choice of the install branch, checked under Spec.      *)
(***************************************************************************)
\* the branch of the decision that the members and the path flag select
Branch ==
    IF Len(members) = 0 THEN "default"
    ELSE IF (Len(members) = 1 /\ members[1].Path = ProjectRoot) \/ HasWord(FilteredWords, <<"--path">>)
            \/ (\E i \in 1..Len(FilteredWords) :
                    FilteredWords[i] # <<>> /\ FilteredWords[i][1] = "--path=")
    THEN "single"
    ELSE "members"

\* C28: once the installs of a build are over, the invocations are those of
\* one branch: one whole-project invocation ("." as the member path) in the
\* default and single branches, one invocation per member with that
\* member's location in the members branch, so their number is 1 or the
\* number of members; a single member that lies elsewhere than the project
\* root, without a user --path, is installed by one invocation with
\* --path=<its location> and not with --path=. .
C28_OneBranchApplies ==
    (resolved /\ InstallsOver) =>
        /\ Branch \in {"default", "single"} =>
              (Len(invocations) = 1 /\ invocations[1].member = <<".">>)
        /\ Branch = "members" =>
              /\ Len(invocations) = Len(members)
              /\ \A i \in 1..Len(members) :
                    /\ invocations[i].member = members[i].Path
                    /\ HasWord(invocations[i].args, <<"--path=">> \o members[i].Path)
                    /\ ~HasWord(invocations[i].args, <<"--path=", ".">>)
        /\ Len(invocations) \in {1, Len(members)}
        /\ (Len(members) = 1 /\ members[1].Path # ProjectRoot /\ Branch = "members") =>
              Len(invocations) = 1

\* one member that lies under the project root, no --path: one invocation
C28_Witness ==
    /\ resolved
    /\ pc = "done"
    /\ Len(members) = 1
    /\ members[1].Path = <<"/workspace", "/a">>
    /\ Branch = "members"
    /\ Len(invocations) = 1
    /\ HasWord(invocations[1].args, <<"--path=", "/workspace", "/a">>)

(***************************************************************************)
(* Claims about when the source cleanup runs, checked under Spec.          *)
(***************************************************************************)
\* C29: a call of Contribute that has ended without error has run the
\* source cleanup, whether the build ran or the layer was reused: the
\* project directory holds the kept entries and bin and nothing else; the
\* cleanup has started only after the layer was reused or after the build
\* succeeded, and a call that failed before the cleanup has left the
\* project directory as it was.
C29_CleanupUnlessFailed ==
    /\ pc = "done" =>
          /\ Cardinality(Positions("cleanup")) = 1
          /\ steps[Len(steps)] = "cleanup"
          /\ appFiles = (SourceFiles \cap ExcludeFolders) \cup {"bin"}
          /\ HasWord(steps, "reuse layer") \/ HasWord(steps, "preserve")
    /\ HasWord(steps, "cleanup") =>
          \/ HasWord(steps, "reuse layer") /\ invocations = <<>>
          \/ /\ preserved = Roots
             /\ Len(invocations) = Len(plan)
             /\ \A i \in 1..Len(invocations) : invocations[i].ok
    /\ (pc = "failed" /\ err # "cleanup") =>
          (~HasWord(steps, "cleanup") /\ appFiles = SourceFiles)

\* the layer was reused, nothing was built, and the sources are gone
C29_Witness ==
    /\ pc = "done"
    /\ HasWord(steps, "reuse layer")
    /\ ~HasWord(steps, "restore")
    /\ "target" \notin appFiles
    /\ "src" \notin appFiles
    /\ "bin" \in appFiles

(***************************************************************************)
(* Claims about the manifests of the preserved roots, checked under Spec.  *)
(***************************************************************************)
\* the prunes among the steps that returned without error
SuccessfulPrunes ==
    Cardinality(Positions("prune")) - (IF err = "unable to cleanup" THEN 1 ELSE 0)

\* C30: when a build that was not skipped has ended without error, each of
\* the three preserved roots holds a manifest written by this build and the
\* project directory holds none; the one restore of the build, over all
\* three roots, came before its first prune and its one snapshot, over the
\* same roots, after its last prune; between a prune that succeeded and the
\* snapshot CARGO_HOME holds no manifest.
C30_ManifestsAtTheEnd ==
    /\ (pc = "done" /\ ~HasWord(steps, "reuse layer")) =>
          /\ \A r \in DOMAIN manifest : manifest[r] = "new"
          /\ "mtimes.json" \notin appFiles
          /\ Cardinality(Positions("restore")) = 1
          /\ Cardinality(Positions("preserve")) = 1
          /\ SuccessfulPrunes = Len(plan)
          /\ SuccessfulPrunes >= 1
          /\ Before("restore", "prune")
          /\ Before("prune", "preserve")
          /\ restored = Roots
          /\ preserved = Roots
    /\ HasWord(steps, "prune") =>
          (restored = Roots /\ Before("restore", "prune"))
    /\ (SuccessfulPrunes >= 1 /\ ~HasWord(steps, "preserve")) =>
          manifest["home"] = "none"
    /\ HasWord(steps, "preserve") => Before("prune", "preserve")

\* a build over manifests of an earlier build has pruned CARGO_HOME twice
\* and has ended with a new manifest in every root
C30_Witness ==
    /\ pc = "done"
    /\ prevMetadata # NoMetadata
    /\ ~HasWord(steps, "reuse layer")
    /\ Cardinality(Positions("prune")) >= 2
    /\ \A r \in DOMAIN manifest : manifest[r] = "new"

====
